---- MODULE Spec2Model ----
(***************************************************************************)
(* Audio-session state machine of dictate.py: the hotkey thread            *)
(* (toggle_recording), the transcription threads (transcribe_audio), the   *)
(* watchdog thread (watchdog_monitor, restart_audio_stream), the           *)
(* device-change handler (apply_device_change) and the PortAudio callback  *)
(* (audio_callback), interleaved at the granularity of the statements      *)
(* that read or write the module-level globals.                            *)
(***************************************************************************)
EXTENDS Integers, Sequences, FiniteSets, TLC

(* ------------------------------ bounds --------------------------------- *)
\* transcription threads that may exist at once (slots 1..MaxPipelines)
MaxPipelines == 2
\* chunks the audio queue holds before the model drops further ones
MaxQueue == 1
\* clock ticks that make up audio_timeout (dictate.py:59, 10 s)
AudioTimeoutTicks == 1
\* clock ticks that make up max_transcribe_time (dictate.py:614, 60 s)
MaxTranscribeTicks == 1
\* watchdog iterations between two device polls (dictate.py:317, 5)
PollIntervalTicks == 2

Pipelines == 1..MaxPipelines
DeviceNames == {"mic_a", "mic_b"}
Callers == {"push", "poll"}

Min(a, b) == IF a < b THEN a ELSE b

\* a chunk is represented by its peak absolute amplitude, in units of 1e-6:
\* all-zero samples, and a peak exactly at the silence threshold
Amplitudes == {0, 10}
\* line 642: 1e-5
SilenceThreshold == 10

VARIABLES
  recording,                \* global recording
  transcribing,             \* global transcribing
  stream,                   \* global stream: "none", or the state of the bound InputStream
  stream_healthy,           \* global stream_healthy
  hb_age,                   \* now - last_heartbeat, in ticks, saturating
  audio_queue,              \* audio_queue: the chunks, oldest first
  last_polled_device_name,  \* global last_polled_device_name
  sys_default,              \* the system's default input device name
  hk,                       \* hotkey thread: statement of toggle_recording it is at
  tpc,                      \* transcription thread p: statement of transcribe_audio
  audio_data,               \* transcription thread p: its local list audio_data
  elapsed,                  \* transcription thread p: now - transcribe_start_time, saturating
  engine,                   \* transcription thread p: state of its transcribe_with_timeout thread
  wd,                       \* watchdog thread: statement of watchdog_monitor it is at
  poll_counter,             \* watchdog's local poll_counter
  adc,                      \* apply_device_change activation per caller: statement it is at
  ac,                       \* PortAudio callback thread: statement of audio_callback
  since_restart,            \* ticks since restart_audio_stream last returned, -1 if never
  effect,                   \* outside effect of the last step: a notification, a refresh, or "none"
  overdue,                  \* transcription thread p: the budget ran out while its engine was running
  result,                   \* transcription thread p: result_container["result"]["text"], <<>> if unset
  transcript,               \* what the log's last "Cleaned transcribed text" line yields, <<>> if none
  pasted,                   \* the text the last step handed to send_text_to_active_app, <<>> if none
  args_device,              \* args.device as far as the session goes: a device's name, "None" if not given
  stream_device,            \* name of the device the bound stream was opened on, "None" if none bound
  select,                   \* a call of select_input_device: its argument, what sounddevice reports, its result
  main,                     \* main thread: statement of the __main__ block it is at
  device_name,              \* main thread's local device_name, "unbound" before line 792
  bound_before,             \* apply_device_change activation c: "bound" once it found a stream bound at line 449
  instance,                 \* per process id: the statement of dictate.py's __main__ block the process is at
  sigterm,                  \* process ids with a SIGTERM generated and not yet delivered
  lock_file,                \* the pid written in /tmp/dictate.lock, NoFile when the file is absent
  monitor                   \* the DeviceMonitor object, its run-loop thread, CoreAudio's side, the callers

vars == <<recording, transcribing, stream, stream_healthy, hb_age, audio_queue,
          last_polled_device_name, sys_default, hk, tpc, audio_data, elapsed,
          engine, wd, poll_counter, adc, ac, since_restart, effect,
          overdue, result, transcript, pasted,
          args_device, stream_device, select, main, device_name, bound_before,
          instance, sigterm, lock_file, monitor>>

\* the variables of one running instance's session
session == <<recording, transcribing, stream, stream_healthy, hb_age, audio_queue,
             last_polled_device_name, sys_default, hk, tpc, audio_data, elapsed,
             engine, wd, poll_counter, adc, ac, since_restart, effect,
             overdue, result, transcript, pasted,
             args_device, stream_device, select, main, device_name, bound_before>>

(* ------------------------------ instances ------------------------------ *)
\* process ids of the instances that can be started
MaxInstances == 3
Instances == 1..MaxInstances
\* os.path.exists(LOCK_FILE) is false
NoFile == 0
\* instance 1 is the only one and has installed its handlers (line 777)
OneInstance == [i \in Instances |-> IF i = 1 THEN "m781" ELSE "off"]

(* ---------------------------- DeviceMonitor ---------------------------- *)
\* AudioObjectIDs of the input devices; None
DeviceIds == {1, 2}
NoId == 0
\* no callback invoked yet
NoCallback == <<>>
\* device_monitor.py lines 175-197: the object after __init__, before start()
NewMonitor ==
  [running |-> FALSE, thread |-> "none", callback_ref |-> FALSE, runloop |-> FALSE,
   last_device_id |-> NoId, registered |-> FALSE, default_id |-> 1,
   start |-> "none", stop |-> "none", callback |-> NoCallback]

(* ------------------------------ streams -------------------------------- *)
\* sd.InputStream object states; stop() and close() ignore PortAudio errors
StreamStates == {"none", "created", "active", "closed"}

\* stream.active (False once closed); on "none" the attribute access raises
StreamActive(s) == s = "active"

\* stream.stop(); stream.close() on whatever the global is bound to
StopClose(s) == IF s = "none" THEN "none" ELSE "closed"

\* stream.start(): succeeds only on an open stream that is not running
CanStart(s) == s = "created"

\* Pa_StopStream returns only after the running callback has returned
CallbackQuiet == ac = "idle"

\* update_heartbeat()
Fresh == 0
Stale(age) == age > AudioTimeoutTicks

(* -------------------------- select_input_device ------------------------ *)
\* None as args.device, and as sd.default.device[0]
NoArg == <<"None">>
NoDefault == -1
\* the RuntimeError of line 597, where an index is expected
NoInputDevices == -2
\* no result yet
Pending == -3

Digits == {"0", "1", "2"}
DigitValue(c) == CASE c = "0" -> 0 [] c = "1" -> 1 [] c = "2" -> 2

\* line 579: int(device_arg) succeeds on decimal digits; a signed number is out
\* of bounds or never reaches the index test
IsNumber(t) == t # <<>> /\ \A i \in 1..Len(t) : t[i] \in Digits

RECURSIVE IntOf(_)
IntOf(t) ==
  IF t = <<>> THEN 0
  ELSE 10 * IntOf(SubSeq(t, 1, Len(t) - 1)) + DigitValue(t[Len(t)])

\* str.lower() on the letters device names and arguments are made of
LowerLetter(c) == CASE c = "A" -> "a" [] c = "B" -> "b" [] OTHER -> c
LowerName(t) == [i \in 1..Len(t) |-> LowerLetter(t[i])]

\* line 586: sub in t
Contains(sub, t) ==
  \E i \in 0..(Len(t) - Len(sub)) : SubSeq(t, i + 1, i + Len(sub)) = sub

\* the first index enumerate() reaches among those of S
FirstIndex(S) == CHOOSE i \in S : \A j \in S : i <= j

\* line 586 without the two lower() calls
MatchesCaseSensitive(device_arg, devices) ==
  {i \in 0..(Len(devices) - 1) : Contains(device_arg, devices[i + 1].name)}

\* lines 585-587: indices (from 0) of the devices whose name contains the argument
Matches(device_arg, devices) ==
  {i \in 0..(Len(devices) - 1) :
     Contains(LowerName(device_arg), LowerName(devices[i + 1].name))}

\* lines 593-594: indices of the devices with input channels
Inputs(devices) ==
  {i \in 0..(Len(devices) - 1) : devices[i + 1].max_input_channels > 0}

\* lines 590-599
DefaultDevice(devices, default) ==
  IF default = NoDefault
    THEN IF Inputs(devices) = {} THEN NoInputDevices ELSE FirstIndex(Inputs(devices))
    ELSE default

\* lines 574-599
select_input_device(device_arg, devices, default) ==
  IF device_arg # NoArg
    THEN IF IsNumber(device_arg) /\ IntOf(device_arg) < Len(devices)
           THEN IntOf(device_arg)
           ELSE IF Matches(device_arg, devices) # {}
                  THEN FirstIndex(Matches(device_arg, devices))
                  ELSE DefaultDevice(devices, default)
    ELSE DefaultDevice(devices, default)

\* the session has not called it with enumerated inputs
NoCall == [device_arg |-> NoArg, devices |-> <<>>, default |-> NoDefault,
           index |-> Pending]

\* the arguments, device lists and defaults the calls are enumerated over
MaxDevices == 2
DeviceArgs == {NoArg, <<>>, <<"0">>, <<"1">>, <<"2">>, <<"a">>, <<"B">>, <<"x">>}
Devices == [name : {<<"A">>, <<"b">>, <<"A", "1">>}, max_input_channels : {0, 1}]
DeviceLists == UNION {[1..n -> Devices] : n \in 0..MaxDevices}
Calls == {c \in [device_arg : DeviceArgs, devices : DeviceLists,
                  default : {NoDefault} \cup 0..(MaxDevices - 1), index : {Pending}] :
            c.default < Len(c.devices)}

\* lines 574-599 on the inputs of the call
SelectCall ==
  /\ select.index = Pending
  /\ select # NoCall
  /\ select' = [select EXCEPT
                  !.index = select_input_device(select.device_arg, select.devices,
                                                select.default)]
  /\ effect' = IF /\ select.device_arg # NoArg
                  /\ select'.index = DefaultDevice(select.devices, select.default)
                  /\ ~(IsNumber(select.device_arg)
                       /\ IntOf(select.device_arg) < Len(select.devices))
                  /\ Matches(select.device_arg, select.devices) = {}
                THEN "Specified device not found. Using default."
                ELSE "none"
  /\ pasted' = <<>>
  /\ UNCHANGED <<recording, transcribing, stream, stream_healthy, hb_age, audio_queue,
                 last_polled_device_name, sys_default, hk, tpc, audio_data, elapsed,
                 engine, wd, poll_counter, adc, ac, since_restart,
                 overdue, transcript, result>>
  /\ UNCHANGED <<instance, sigterm, lock_file, monitor, args_device, stream_device, main, device_name, bound_before>>

\* the name of the device select_input_device(args.device) resolves to in the
\* session: the configured one, else the system default
Selected == IF args_device = "None" THEN sys_default ELSE args_device

(* ------------------------------- Init ---------------------------------- *)
\* State at the "Ready" notification: stream pre-initialised (not started) or,
\* when pre-initialisation failed, absent.
Init ==
  /\ recording = FALSE
  /\ transcribing = FALSE
  /\ stream \in {"created", "none"}
  /\ stream_healthy = (stream = "created")
  /\ hb_age = Fresh
  /\ audio_queue = <<>>
  /\ sys_default \in DeviceNames
  /\ args_device \in {"None"} \cup DeviceNames
  /\ device_name = Selected
  /\ last_polled_device_name = device_name
  /\ stream_device = (IF stream = "created" THEN device_name ELSE "None")
  /\ main = "ready"
  /\ select = NoCall
  /\ bound_before = [c \in Callers |-> "none"]
  /\ instance = OneInstance
  /\ sigterm = {}
  /\ lock_file = 1
  /\ monitor = NewMonitor
  /\ hk = "idle"
  /\ tpc = [p \in Pipelines |-> "none"]
  /\ audio_data = [p \in Pipelines |-> <<>>]
  /\ elapsed = [p \in Pipelines |-> 0]
  /\ engine = [p \in Pipelines |-> "none"]
  /\ wd = "w322"
  /\ poll_counter = 0
  /\ adc = [c \in Callers |-> "none"]
  /\ ac = "idle"
  /\ since_restart = -1
  /\ effect = "none"
  /\ overdue = [p \in Pipelines |-> FALSE]
  /\ result = [p \in Pipelines |-> <<>>]
  /\ transcript \in {<<>>, <<"a", " ">>}
  /\ pasted = <<>>

(* -------------------------- toggle_recording --------------------------- *)
\* slots whose transcription thread and engine thread have both ended
FreeSlots == {p \in Pipelines : tpc[p] = "none" /\ engine[p] = "none"}
FirstFree == CHOOSE p \in FreeSlots : \A q \in FreeSlots : p <= q

\* toggle_recording without its transcribing gate
ToggleGateMissing == FALSE

\* line 193: the transcribing gate
ToggleGate == transcribing

\* lines 193-198 and 268: F1 pressed; ignored while transcribing, else start or stop
ToggleEnter ==
  /\ hk = "idle"
  /\ IF ToggleGate
       THEN /\ effect' = "Please wait, transcribing..."
            /\ hk' = "idle"
       ELSE /\ effect' = "none"
            /\ hk' = IF ~recording THEN "t203" ELSE "t270"
  /\ UNCHANGED <<recording, transcribing, stream, stream_healthy, hb_age, audio_queue,
                 last_polled_device_name, sys_default, tpc, audio_data, elapsed,
                 engine, wd, poll_counter, adc, ac, since_restart,
                 overdue, transcript, result>>
  /\ pasted' = <<>>
  /\ UNCHANGED <<instance, sigterm, lock_file, monitor, args_device, stream_device, select, main, device_name, bound_before>>

\* lines 200-216: reuse the bound stream only if it reports active
ToggleCheckStream ==
  /\ hk = "t203"
  /\ hk' = IF StreamActive(stream) THEN "t264" ELSE "t222"
  /\ effect' = "none"
  /\ UNCHANGED <<recording, transcribing, stream, stream_healthy, hb_age, audio_queue,
                 last_polled_device_name, sys_default, tpc, audio_data, elapsed,
                 engine, wd, poll_counter, adc, ac, since_restart,
                 overdue, transcript, result>>
  /\ pasted' = <<>>
  /\ UNCHANGED <<instance, sigterm, lock_file, monitor, args_device, stream_device, select, main, device_name, bound_before>>

\* lines 219-227: stop and close the old stream
ToggleCloseOld ==
  /\ hk = "t222"
  /\ CallbackQuiet
  /\ stream' = StopClose(stream)
  /\ hk' = "t229"
  /\ effect' = "none"
  /\ UNCHANGED <<recording, transcribing, stream_healthy, hb_age, audio_queue,
                 last_polled_device_name, sys_default, tpc, audio_data, elapsed,
                 engine, wd, poll_counter, adc, ac, since_restart,
                 overdue, transcript, result>>
  /\ pasted' = <<>>
  /\ UNCHANGED <<instance, sigterm, lock_file, monitor, args_device, stream_device, select, main, device_name, bound_before>>

\* the except clause without its stream_healthy = False
ToggleFailedKeepsHealth ==
  /\ stream_healthy' = stream_healthy
  /\ effect' = "Failed to start recording"
  /\ hk' = "idle"

\* lines 256-261: except: notify, stream_healthy = False, return
ToggleFailed ==
  /\ stream_healthy' = FALSE
  /\ effect' = "Failed to start recording"
  /\ hk' = "idle"

\* lines 229-235: select_input_device, query_devices, then empty the queue
ToggleSelect ==
  /\ hk = "t229"
  /\ \E ok \in BOOLEAN :
       IF ok THEN /\ audio_queue' = <<>>
                  /\ hk' = "t237"
                  /\ effect' = "none"
                  /\ UNCHANGED stream_healthy
             ELSE /\ audio_queue' = audio_queue
                  /\ ToggleFailed
  /\ UNCHANGED <<recording, transcribing, stream, hb_age,
                 last_polled_device_name, sys_default, tpc, audio_data, elapsed,
                 engine, wd, poll_counter, adc, ac, since_restart,
                 overdue, transcript, result>>
  /\ pasted' = <<>>
  /\ UNCHANGED <<instance, sigterm, lock_file, monitor, args_device, stream_device, select, main, device_name, bound_before>>

\* lines 237-242: stream = sd.InputStream(...)
ToggleCreate ==
  /\ hk = "t237"
  /\ \E ok \in BOOLEAN :
       IF ok THEN /\ stream' = "created"
                  /\ stream_device' = Selected
                  /\ hk' = "t243"
                  /\ effect' = "none"
                  /\ UNCHANGED stream_healthy
             ELSE /\ UNCHANGED <<stream, stream_device>>
                  /\ ToggleFailed
  /\ UNCHANGED <<recording, transcribing, hb_age, audio_queue,
                 last_polled_device_name, sys_default, tpc, audio_data, elapsed,
                 engine, wd, poll_counter, adc, ac, since_restart,
                 overdue, transcript, result>>
  /\ pasted' = <<>>
  /\ UNCHANGED <<instance, sigterm, lock_file, monitor, args_device, select, main, device_name, bound_before>>

\* line 243: stream.start()
ToggleStart ==
  /\ hk = "t243"
  /\ \E ok \in BOOLEAN :
       IF ok /\ CanStart(stream)
         THEN /\ stream' = "active"
              /\ hk' = "t250"
              /\ effect' = "none"
              /\ UNCHANGED stream_healthy
         ELSE /\ stream' = stream
              /\ ToggleFailed
  /\ UNCHANGED <<recording, transcribing, hb_age, audio_queue,
                 last_polled_device_name, sys_default, tpc, audio_data, elapsed,
                 engine, wd, poll_counter, adc, ac, since_restart,
                 overdue, transcript, result>>
  /\ pasted' = <<>>
  /\ UNCHANGED <<instance, sigterm, lock_file, monitor, args_device, stream_device, select, main, device_name, bound_before>>

\* lines 250-254: verify stream.active, then stream_healthy = True, update_heartbeat()
ToggleVerify ==
  /\ hk = "t250"
  /\ IF StreamActive(stream)
       THEN /\ stream_healthy' = TRUE
            /\ hb_age' = Fresh
            /\ hk' = "t264"
            /\ effect' = "none"
       ELSE /\ UNCHANGED hb_age
            /\ ToggleFailed
  /\ UNCHANGED <<recording, transcribing, stream, audio_queue,
                 last_polled_device_name, sys_default, tpc, audio_data, elapsed,
                 engine, wd, poll_counter, adc, ac, since_restart,
                 overdue, transcript, result>>
  /\ pasted' = <<>>
  /\ UNCHANGED <<instance, sigterm, lock_file, monitor, args_device, stream_device, select, main, device_name, bound_before>>

\* lines 264-265: recording = True, notify
ToggleSetRecording ==
  /\ hk = "t264"
  /\ recording' = TRUE
  /\ effect' = "Recording started"
  /\ hk' = "t267"
  /\ UNCHANGED <<transcribing, stream, stream_healthy, hb_age, audio_queue,
                 last_polled_device_name, sys_default, tpc, audio_data, elapsed,
                 engine, wd, poll_counter, adc, ac, since_restart,
                 overdue, transcript, result>>
  /\ pasted' = <<>>
  /\ UNCHANGED <<instance, sigterm, lock_file, monitor, args_device, stream_device, select, main, device_name, bound_before>>

\* line 267: update_heartbeat()
ToggleHeartbeat ==
  /\ hk = "t267"
  /\ hb_age' = Fresh
  /\ hk' = "idle"
  /\ effect' = "none"
  /\ UNCHANGED <<recording, transcribing, stream, stream_healthy, audio_queue,
                 last_polled_device_name, sys_default, tpc, audio_data, elapsed,
                 engine, wd, poll_counter, adc, ac, since_restart,
                 overdue, transcript, result>>
  /\ pasted' = <<>>
  /\ UNCHANGED <<instance, sigterm, lock_file, monitor, args_device, stream_device, select, main, device_name, bound_before>>

\* lines 270-273: recording = False, notify, start the transcribe_audio thread
ToggleStop ==
  /\ hk = "t270"
  /\ FreeSlots # {}
  /\ recording' = FALSE
  /\ tpc' = [tpc EXCEPT ![FirstFree] = "t612"]
  /\ effect' = "Recording stopped"
  /\ hk' = "idle"
  /\ UNCHANGED <<transcribing, stream, stream_healthy, hb_age, audio_queue,
                 last_polled_device_name, sys_default, audio_data, elapsed,
                 engine, wd, poll_counter, adc, ac, since_restart,
                 overdue, transcript, result>>
  /\ pasted' = <<>>
  /\ UNCHANGED <<instance, sigterm, lock_file, monitor, args_device, stream_device, select, main, device_name, bound_before>>

toggle_recording ==
  \/ ToggleEnter \/ ToggleCheckStream \/ ToggleCloseOld
  \/ ToggleSelect \/ ToggleCreate \/ ToggleStart \/ ToggleVerify
  \/ ToggleSetRecording \/ ToggleHeartbeat \/ ToggleStop

(* ------------------------------- texts --------------------------------- *)
\* a text is a sequence of one-character strings
Space == {" ", "\n"}
Punctuation == {".", ",", "?", "!"}

\* number of leading characters of t that belong to S
RECURSIVE Leading(_, _)
Leading(t, S) ==
  IF t = <<>> \/ t[1] \notin S THEN 0 ELSE 1 + Leading(Tail(t), S)

Drop(t, n) == SubSeq(t, n + 1, Len(t))
Reverse(t) == [i \in 1..Len(t) |-> t[Len(t) + 1 - i]]

\* str.strip()
Strip(t) == Reverse(Drop(Reverse(Drop(t, Leading(t, Space))),
                         Leading(Reverse(Drop(t, Leading(t, Space))), Space)))

\* text_postprocessor.py line 47: re.sub(r'\s*([.,?!])\s*', r'\1 ', text)
RECURSIVE SpacePunctuation(_)
SpacePunctuation(t) ==
  IF t = <<>> THEN <<>>
  ELSE LET k == Leading(t, Space)
       IN IF k < Len(t) /\ t[k + 1] \in Punctuation
            THEN <<t[k + 1], " ">> \o
                 SpacePunctuation(Drop(t, k + 1 + Leading(Drop(t, k + 1), Space)))
            ELSE <<t[1]>> \o SpacePunctuation(Tail(t))

\* length of the longest run of whitespace at the head of t that ends in a newline
LastNewline(t) ==
  LET k == Leading(t, Space)
      N == {i \in 1..k : t[i] = "\n"}
  IN IF N = {} THEN 0 ELSE CHOOSE i \in N : \A j \in N : j <= i

\* text_postprocessor.py line 50: re.sub(r'[.,]\s*\n', r'\n', text)
RECURSIVE PunctuationBeforeNewline(_)
PunctuationBeforeNewline(t) ==
  IF t = <<>> THEN <<>>
  ELSE IF t[1] \in {".", ","} /\ LastNewline(Tail(t)) > 0
         THEN <<"\n">> \o PunctuationBeforeNewline(Drop(t, 1 + LastNewline(Tail(t))))
         ELSE <<t[1]>> \o PunctuationBeforeNewline(Tail(t))

\* text_postprocessor.py line 53: re.sub(r'\n+', '\n\n', text)
RECURSIVE DoubleNewlines(_)
DoubleNewlines(t) ==
  IF t = <<>> THEN <<>>
  ELSE IF t[1] = "\n"
         THEN <<"\n", "\n">> \o DoubleNewlines(Drop(t, Leading(t, {"\n"})))
         ELSE <<t[1]>> \o DoubleNewlines(Tail(t))

\* str.splitlines() on texts whose only line boundary is "\n"
RECURSIVE SplitLines(_)
SplitLines(t) ==
  IF t = <<>> THEN <<>>
  ELSE LET k == Leading(t, {c \in {t[i] : i \in 1..Len(t)} : c # "\n"})
       IN IF k = Len(t) THEN <<t>>
          ELSE <<SubSeq(t, 1, k)>> \o SplitLines(Drop(t, k + 1))

\* "\n".join(lines)
RECURSIVE Join(_)
Join(lines) ==
  IF lines = <<>> THEN <<>>
  ELSE IF Len(lines) = 1 THEN lines[1]
  ELSE lines[1] \o <<"\n">> \o Join(Tail(lines))

\* text_postprocessor.py line 56: trim each line
TrimLines(t) == Join([i \in 1..Len(SplitLines(t)) |-> Strip(SplitLines(t)[i])])

\* re.IGNORECASE on the letters of the modelled mapping
Lower(c) == CASE c = "M" -> "m" [] c = "T" -> "t" [] c = "P" -> "p" [] OTHER -> c
Fold(t) == [i \in 1..Len(t) |-> Lower(t[i])]

\* re.sub(pattern, replacement, text, flags=re.IGNORECASE) for a literal pattern
RECURSIVE ReplaceAll(_, _, _)
ReplaceAll(t, pat, new) ==
  IF Len(t) < Len(pat) THEN t
  ELSE IF Fold(SubSeq(t, 1, Len(pat))) = Fold(pat)
         THEN new \o ReplaceAll(Drop(t, Len(pat)), pat, new)
         ELSE <<t[1]>> \o ReplaceAll(Tail(t), pat, new)

\* text_postprocessor.py lines 7-40: of WORD_MAPPINGS, the entry r'mtp': 'MCP';
\* no other entry matches a text over the letters a, m, t, p
correct_variations(t) == ReplaceAll(t, <<"m", "t", "p">>, <<"M", "C", "P">>)

\* text_postprocessor.py lines 42-58
cleanup_text(t) ==
  TrimLines(DoubleNewlines(PunctuationBeforeNewline(SpacePunctuation(
    correct_variations(t)))))

\* dictate.py lines 696 and 699: result['text'].strip(), then
\* cleanup_text(text).strip() + " "
PipelineText(raw) == Strip(cleanup_text(Strip(raw))) \o <<" ">>

\* dictate.py line 703: if text
Truthy(t) == t # <<>>

\* the characters and the length of the texts the checks enumerate
Chars == {"a", " ", ".", "\n", "'"}
MaxLen == 3
Hello == <<"h", "e", "l", "l", "o", " ", " ", "w", "o", "r", "l", "d", " ", ".">>
Texts == UNION {[1..n -> Chars] : n \in 0..MaxLen} \cup {Hello, <<"m", "t", "p">>}

\* dictate.py lines 291-295 on the lines that line 700 logs as
\* "Cleaned transcribed text: '<text>'": the group the pattern
\* r"Cleaned transcribed text: '(.+)'$" captures on the line that carries the
\* prefix, <<>> when that line does not match
LogGroup(text) ==
  LET first == IF SplitLines(text) = <<>> THEN <<>> ELSE SplitLines(text)[1]
  IN IF first = text
       THEN text
       ELSE IF Len(first) >= 2 /\ first[Len(first)] = "'"
              THEN SubSeq(first, 1, Len(first) - 1)
              ELSE <<>>

\* PipelineText and LogGroup of it, tabulated over the texts
Table == {<<raw, PipelineText(raw), LogGroup(PipelineText(raw))>> : raw \in Texts}
Cleaned(raw) == (CHOOSE row \in Table : row[1] = raw)[2]
Logged(raw) == (CHOOSE row \in Table : row[1] = raw)[3]

\* the transcript a later repaste finds once the cleaned text of raw was logged
LogYield(raw, old) == IF Logged(raw) = <<>> THEN old ELSE Logged(raw)

\* the result text of the engine in the session specifications: one word
EngineTexts == {<<"a">>}

(* --------------------------- transcribe_audio -------------------------- *)
\* lines 611-613: transcribing = True, transcribe_start_time = now
TrBegin(p) ==
  /\ tpc[p] = "t612"
  /\ transcribing' = TRUE
  /\ elapsed' = [elapsed EXCEPT ![p] = 0]
  /\ tpc' = [tpc EXCEPT ![p] = "t621"]
  /\ effect' = "none"
  /\ UNCHANGED <<recording, stream, stream_healthy, hb_age, audio_queue,
                 last_polled_device_name, sys_default, hk, audio_data,
                 engine, wd, poll_counter, adc, ac, since_restart,
                 overdue, transcript, result>>
  /\ pasted' = <<>>
  /\ UNCHANGED <<instance, sigterm, lock_file, monitor, args_device, stream_device, select, main, device_name, bound_before>>

\* lines 618-626: move every queued chunk into the local audio_data
\* (one step: an iteration of the loop is far shorter than the callback's period)
TrDrain(p) ==
  /\ tpc[p] = "t621"
  /\ audio_data' = [audio_data EXCEPT ![p] = audio_queue]
  /\ audio_queue' = <<>>
  /\ tpc' = [tpc EXCEPT ![p] = "t630"]
  /\ effect' = "none"
  /\ UNCHANGED <<recording, transcribing, stream, stream_healthy, hb_age,
                 last_polled_device_name, sys_default, hk, elapsed,
                 engine, wd, poll_counter, adc, ac, since_restart,
                 overdue, transcript, result>>
  /\ pasted' = <<>>
  /\ UNCHANGED <<instance, sigterm, lock_file, monitor, args_device, stream_device, select, main, device_name, bound_before>>

\* lines 630-634: nothing captured
TrEmpty(p) ==
  /\ tpc[p] = "t630"
  /\ audio_data[p] = <<>>
  /\ effect' = "No audio recorded"
  /\ transcribing' = FALSE
  /\ tpc' = [tpc EXCEPT ![p] = "finally"]
  /\ UNCHANGED <<recording, stream, stream_healthy, hb_age, audio_queue,
                 last_polled_device_name, sys_default, hk, audio_data, elapsed,
                 engine, wd, poll_counter, adc, ac, since_restart,
                 overdue, transcript, result>>
  /\ pasted' = <<>>
  /\ UNCHANGED <<instance, sigterm, lock_file, monitor, args_device, stream_device, select, main, device_name, bound_before>>

\* line 640: max_amp = np.max(np.abs(audio)) of the concatenated chunks
Peak(d) == CHOOSE a \in {d[i] : i \in 1..Len(d)} : \A i \in 1..Len(d) : d[i] <= a

\* line 642: max_amp < 1e-5
Silent(d) == Peak(d) < SilenceThreshold

\* lines 636-646: peak amplitude under the silence threshold
TrSilent(p) ==
  /\ tpc[p] = "t630"
  /\ audio_data[p] # <<>>
  /\ Silent(audio_data[p])
  /\ effect' = "Audio too quiet, try again"
  /\ transcribing' = FALSE
  /\ tpc' = [tpc EXCEPT ![p] = "finally"]
  /\ UNCHANGED <<recording, stream, stream_healthy, hb_age, audio_queue,
                 last_polled_device_name, sys_default, hk, audio_data, elapsed,
                 engine, wd, poll_counter, adc, ac, since_restart,
                 overdue, transcript, result>>
  /\ pasted' = <<>>
  /\ UNCHANGED <<instance, sigterm, lock_file, monitor, args_device, stream_device, select, main, device_name, bound_before>>

\* lines 649-669: normalise, start the transcribe_with_timeout thread
TrStartEngine(p) ==
  /\ tpc[p] = "t630"
  /\ audio_data[p] # <<>>
  /\ ~Silent(audio_data[p])
  /\ engine' = [engine EXCEPT ![p] = "running"]
  /\ tpc' = [tpc EXCEPT ![p] = "t673"]
  /\ effect' = "none"
  /\ UNCHANGED <<recording, transcribing, stream, stream_healthy, hb_age, audio_queue,
                 last_polled_device_name, sys_default, hk, audio_data, elapsed,
                 wd, poll_counter, adc, ac, since_restart,
                 overdue, transcript, result>>
  /\ pasted' = <<>>
  /\ UNCHANGED <<instance, sigterm, lock_file, monitor, args_device, stream_device, select, main, device_name, bound_before>>

\* lines 657-664: model.transcribe returns or raises, whenever it does; the
\* outcome goes to result_container, which nothing reads once the pipeline has
\* stopped waiting
EngineFinish(p) ==
  /\ engine[p] = "running"
  /\ \/ /\ engine' = [engine EXCEPT ![p] = IF tpc[p] = "t673" THEN "error" ELSE "none"]
        /\ result' = result
     \/ \E raw \in EngineTexts :
          /\ engine' = [engine EXCEPT ![p] = IF tpc[p] = "t673" THEN "success" ELSE "none"]
          /\ result' = [result EXCEPT ![p] = IF tpc[p] = "t673" THEN raw ELSE <<>>]
  /\ effect' = "none"
  /\ UNCHANGED <<recording, transcribing, stream, stream_healthy, hb_age, audio_queue,
                 last_polled_device_name, sys_default, hk, tpc, audio_data, elapsed,
                 wd, poll_counter, adc, ac, since_restart,
                 overdue, transcript>>
  /\ pasted' = <<>>
  /\ UNCHANGED <<instance, sigterm, lock_file, monitor, args_device, stream_device, select, main, device_name, bound_before>>

\* the monitoring loop without its budget test
TimedOutNever(e) == FALSE

\* line 676: the budget test of the monitoring loop
TimedOut(e) == e > MaxTranscribeTicks

\* lines 673-686: leave the loop when the thread ended or the budget ran out
TrWait(p) ==
  /\ tpc[p] = "t673"
  /\ IF engine[p] # "running"
       THEN /\ tpc' = [tpc EXCEPT ![p] = "t688"]
            /\ effect' = "none"
            /\ UNCHANGED transcribing
       ELSE /\ TimedOut(elapsed[p])
            /\ effect' = "Transcription is taking too long, try again"
            /\ transcribing' = FALSE
            /\ tpc' = [tpc EXCEPT ![p] = "finally"]
  /\ UNCHANGED <<recording, stream, stream_healthy, hb_age, audio_queue,
                 last_polled_device_name, sys_default, hk, audio_data, elapsed,
                 engine, wd, poll_counter, adc, ac, since_restart,
                 overdue, transcript, result>>
  /\ pasted' = <<>>
  /\ UNCHANGED <<instance, sigterm, lock_file, monitor, args_device, stream_device, select, main, device_name, bound_before>>

\* the engine's exception handled by the outer except clause (lines 709-712)
\* instead of lines 661-664 and 688-692
TrEngineFailedRaises(p) ==
  /\ tpc[p] = "t688"
  /\ engine[p] = "error"
  /\ effect' = "Transcription error"
  /\ tpc' = [tpc EXCEPT ![p] = "finally"]
  /\ UNCHANGED <<recording, transcribing, stream, stream_healthy, hb_age, audio_queue,
                 last_polled_device_name, sys_default, hk, audio_data, elapsed,
                 engine, wd, poll_counter, adc, ac, since_restart,
                 overdue, transcript, result>>
  /\ pasted' = <<>>
  /\ UNCHANGED <<instance, sigterm, lock_file, monitor, args_device, stream_device, select, main, device_name, bound_before>>

\* lines 688-692: the engine raised
TrEngineFailed(p) ==
  /\ tpc[p] = "t688"
  /\ engine[p] = "error"
  /\ effect' = "Transcription failed"
  /\ transcribing' = FALSE
  /\ tpc' = [tpc EXCEPT ![p] = "finally"]
  /\ UNCHANGED <<recording, stream, stream_healthy, hb_age, audio_queue,
                 last_polled_device_name, sys_default, hk, audio_data, elapsed,
                 engine, wd, poll_counter, adc, ac, since_restart,
                 overdue, transcript, result>>
  /\ pasted' = <<>>
  /\ UNCHANGED <<instance, sigterm, lock_file, monitor, args_device, stream_device, select, main, device_name, bound_before>>

\* lines 695-707: clean the engine's text, log it, paste it if it is truthy
TrDeliver(p) ==
  /\ tpc[p] = "t688"
  /\ engine[p] = "success"
  /\ transcript' = LogYield(result[p], transcript)
  /\ effect' = IF Truthy(Cleaned(result[p])) THEN "send_text_to_active_app"
                ELSE "No text detected"
  /\ pasted' = IF Truthy(Cleaned(result[p])) THEN Cleaned(result[p]) ELSE <<>>
  /\ UNCHANGED <<instance, sigterm, lock_file, monitor, args_device, stream_device, select, main, device_name, bound_before>>
  /\ tpc' = [tpc EXCEPT ![p] = "finally"]
  /\ UNCHANGED <<recording, transcribing, stream, stream_healthy, hb_age, audio_queue,
                 last_polled_device_name, sys_default, hk, audio_data, elapsed,
                 engine, wd, poll_counter, adc, ac, since_restart,
                 overdue, result>>

\* lines 709-712: anything raised inside the try: starting the engine thread
\* (line 669), reading the result, cleanup (lines 695-699), or the paste
\* (line 704), which comes after the text was logged at line 700
TrException(p) ==
  /\ tpc[p] \in {"t630", "t688"}
  /\ tpc[p] = "t630" => (audio_data[p] # <<>> /\ ~Silent(audio_data[p]))
  /\ tpc[p] = "t688" => engine[p] = "success"
  /\ effect' = "Transcription error"
  /\ tpc' = [tpc EXCEPT ![p] = "finally"]
  /\ \/ transcript' = transcript
     \/ /\ tpc[p] = "t688"
        /\ transcript' = LogYield(result[p], transcript)
  /\ UNCHANGED <<recording, transcribing, stream, stream_healthy, hb_age, audio_queue,
                 last_polled_device_name, sys_default, hk, audio_data, elapsed,
                 engine, wd, poll_counter, adc, ac, since_restart,
                 overdue, result>>
  /\ pasted' = <<>>
  /\ UNCHANGED <<instance, sigterm, lock_file, monitor, args_device, stream_device, select, main, device_name, bound_before>>

\* line 715: what the finally clause stores in `transcribing`
FinallyValue(t) == FALSE

\* lines 714-715: finally: transcribing = False; the thread ends
TrFinally(p) ==
  /\ tpc[p] = "finally"
  /\ transcribing' = FinallyValue(transcribing)
  /\ tpc' = [tpc EXCEPT ![p] = "none"]
  /\ audio_data' = [audio_data EXCEPT ![p] = <<>>]
  /\ elapsed' = [elapsed EXCEPT ![p] = 0]
  /\ engine' = [engine EXCEPT ![p] = IF engine[p] = "running" THEN "running" ELSE "none"]
  /\ result' = [result EXCEPT ![p] = <<>>]
  /\ overdue' = [overdue EXCEPT ![p] = FALSE]
  /\ effect' = "none"
  /\ UNCHANGED <<recording, stream, stream_healthy, hb_age, audio_queue,
                 last_polled_device_name, sys_default, hk,
                 wd, poll_counter, adc, ac, since_restart,
                 transcript>>
  /\ pasted' = <<>>
  /\ UNCHANGED <<instance, sigterm, lock_file, monitor, args_device, stream_device, select, main, device_name, bound_before>>

transcribe_audio(p) ==
  \/ TrBegin(p) \/ TrDrain(p) \/ TrEmpty(p) \/ TrSilent(p) \/ TrStartEngine(p)
  \/ TrWait(p) \/ TrEngineFailed(p) \/ TrDeliver(p) \/ TrException(p) \/ TrFinally(p)

(* --------------------- repaste_last_transcription ---------------------- *)
\* line 294 taking every log for one that holds a transcript
FoundAlways(t) == TRUE

\* lines 281, 292-294: the log file exists and one of its lines matches
Found(t) == t # <<>>

\* lines 281-284, 301-302: no log file, or no line of it matches
RepasteNothing ==
  /\ hk = "idle"
  /\ ~Found(transcript)
  /\ effect' = "No previous transcription"
  /\ pasted' = <<>>
  /\ UNCHANGED <<instance, sigterm, lock_file, monitor, args_device, stream_device, select, main, device_name, bound_before>>
  /\ hk' = "idle"
  /\ UNCHANGED <<recording, transcribing, stream, stream_healthy, hb_age, audio_queue,
                 last_polled_device_name, sys_default, tpc, audio_data, elapsed,
                 engine, wd, poll_counter, adc, ac, since_restart,
                 overdue, transcript, result>>

\* lines 292-297: hand the last match to send_text_to_active_app
RepastePaste ==
  /\ hk = "idle"
  /\ Found(transcript)
  /\ effect' = "send_text_to_active_app"
  /\ pasted' = transcript
  /\ UNCHANGED <<instance, sigterm, lock_file, monitor, args_device, stream_device, select, main, device_name, bound_before>>
  /\ hk' = "f298"
  /\ UNCHANGED <<recording, transcribing, stream, stream_healthy, hb_age, audio_queue,
                 last_polled_device_name, sys_default, tpc, audio_data, elapsed,
                 engine, wd, poll_counter, adc, ac, since_restart,
                 overdue, transcript, result>>

\* lines 298-299
RepasteNotify ==
  /\ hk = "f298"
  /\ effect' = "Repasted last transcription"
  /\ pasted' = <<>>
  /\ UNCHANGED <<instance, sigterm, lock_file, monitor, args_device, stream_device, select, main, device_name, bound_before>>
  /\ hk' = "idle"
  /\ UNCHANGED <<recording, transcribing, stream, stream_healthy, hb_age, audio_queue,
                 last_polled_device_name, sys_default, tpc, audio_data, elapsed,
                 engine, wd, poll_counter, adc, ac, since_restart,
                 overdue, transcript, result>>

\* the except clause with the globals of toggle_recording's except clause
RepasteExceptionResets ==
  /\ hk = "idle"
  /\ effect' = "Failed to repaste"
  /\ pasted' = <<>>
  /\ UNCHANGED <<instance, sigterm, lock_file, monitor, args_device, stream_device, select, main, device_name, bound_before>>
  /\ hk' = "idle"
  /\ recording' = FALSE
  /\ stream_healthy' = FALSE
  /\ UNCHANGED <<transcribing, stream, hb_age, audio_queue,
                 last_polled_device_name, sys_default, tpc, audio_data, elapsed,
                 engine, wd, poll_counter, adc, ac, since_restart,
                 overdue, transcript, result>>

\* lines 304-306: reading the log (lines 287-288) or the paste (line 297) raised
RepasteException ==
  /\ hk = "idle"
  /\ effect' = "Failed to repaste"
  /\ pasted' = <<>>
  /\ UNCHANGED <<instance, sigterm, lock_file, monitor, args_device, stream_device, select, main, device_name, bound_before>>
  /\ hk' = "idle"
  /\ UNCHANGED <<recording, transcribing, stream, stream_healthy, hb_age, audio_queue,
                 last_polled_device_name, sys_default, tpc, audio_data, elapsed,
                 engine, wd, poll_counter, adc, ac, since_restart,
                 overdue, transcript, result>>

repaste_last_transcription ==
  \/ RepasteNothing \/ RepastePaste \/ RepasteNotify \/ RepasteException

(* ---------------------------- audio_callback --------------------------- *)
\* line 172: the callback of a running stream reads `recording`
AcRead ==
  /\ ac = "idle"
  /\ StreamActive(stream)
  /\ IF recording
       THEN /\ ac' = "put"
            /\ UNCHANGED hb_age
       ELSE /\ ac' = "idle"
            /\ hb_age' = Fresh
  /\ effect' = "none"
  /\ UNCHANGED <<recording, transcribing, stream, stream_healthy, audio_queue,
                 last_polled_device_name, sys_default, hk, tpc, audio_data, elapsed,
                 engine, wd, poll_counter, adc, since_restart,
                 overdue, transcript, result>>
  /\ pasted' = <<>>
  /\ UNCHANGED <<instance, sigterm, lock_file, monitor, args_device, stream_device, select, main, device_name, bound_before>>

\* lines 173-177: audio_queue.put(indata.copy()), update_heartbeat(); a is the
\* chunk's peak amplitude
AcPut(a) ==
  /\ ac = "put"
  /\ audio_queue' = IF Len(audio_queue) < MaxQueue THEN Append(audio_queue, a)
                    ELSE audio_queue
  /\ hb_age' = Fresh
  /\ ac' = "idle"
  /\ effect' = "none"
  /\ UNCHANGED <<recording, transcribing, stream, stream_healthy,
                 last_polled_device_name, sys_default, hk, tpc, audio_data, elapsed,
                 engine, wd, poll_counter, adc, since_restart,
                 overdue, transcript, result>>
  /\ pasted' = <<>>
  /\ UNCHANGED <<instance, sigterm, lock_file, monitor, args_device, stream_device, select, main, device_name, bound_before>>

audio_callback == AcRead \/ \E a \in Amplitudes : AcPut(a)

\* the callback of a stream that picks up silence only
audio_callback_quiet == AcRead \/ AcPut(0)

(* -------------------------------- time --------------------------------- *)
Age(n, cap) == Min(n + 1, cap + 1)

\* datetime.now() advances by one tick, as read at line 675, the only place the
\* pipelines read the clock
TickBudget ==
  /\ \E p \in Pipelines : tpc[p] = "t673" /\ ~TimedOut(elapsed[p])
  /\ elapsed' = [p \in Pipelines |->
                   IF tpc[p] = "t673" THEN Age(elapsed[p], MaxTranscribeTicks)
                   ELSE elapsed[p]]
  /\ overdue' = [p \in Pipelines |->
                   \/ overdue[p]
                   \/ /\ tpc[p] = "t673"
                      /\ engine[p] = "running"
                      /\ TimedOut(Age(elapsed[p], MaxTranscribeTicks))]
  /\ effect' = "none"
  /\ UNCHANGED <<recording, transcribing, stream, stream_healthy, hb_age, audio_queue,
                 last_polled_device_name, sys_default, hk, tpc, audio_data,
                 engine, wd, poll_counter, adc, ac, since_restart,
                 transcript, result>>
  /\ pasted' = <<>>
  /\ UNCHANGED <<instance, sigterm, lock_file, monitor, args_device, stream_device, select, main, device_name, bound_before>>

\* datetime.now() advances by one tick, as read at line 323
TickHeartbeat ==
  /\ hb_age' = Age(hb_age, AudioTimeoutTicks)
  /\ since_restart' = IF since_restart = -1 THEN -1
                      ELSE Age(since_restart, AudioTimeoutTicks)
  /\ effect' = "none"
  /\ UNCHANGED <<recording, transcribing, stream, stream_healthy, audio_queue,
                 last_polled_device_name, sys_default, hk, tpc, audio_data, elapsed,
                 engine, wd, poll_counter, adc, ac,
                 overdue, transcript, result>>
  /\ pasted' = <<>>
  /\ UNCHANGED <<instance, sigterm, lock_file, monitor, args_device, stream_device, select, main, device_name, bound_before>>

(* ------------------------- apply_device_change ------------------------- *)
\* the caller of activation c gets control back: the watchdog sleeps (line 362)
\* and starts its next iteration, the push thread ends
Return(c) ==
  /\ adc' = [adc EXCEPT ![c] = "none"]
  /\ wd' = IF c = "poll" THEN "w322" ELSE wd
  /\ bound_before' = [bound_before EXCEPT ![c] = "none"]

\* the handler without its second guard
AdcTranscribingGuardMissing == FALSE

\* lines 438 and 443: the two phase guards
AdcRecordingGuard == recording
AdcTranscribingGuard == transcribing

\* lines 438-440: if recording: return
AdcCheckRecording(c) ==
  /\ adc[c] = "a438"
  /\ IF AdcRecordingGuard
       THEN Return(c)
       ELSE /\ adc' = [adc EXCEPT ![c] = "a443"]
            /\ UNCHANGED <<wd, bound_before>>
  /\ effect' = "none"
  /\ UNCHANGED <<recording, transcribing, stream, stream_healthy, hb_age, audio_queue,
                 last_polled_device_name, sys_default, hk, tpc, audio_data, elapsed,
                 engine, poll_counter, ac, since_restart,
                 overdue, transcript, result>>
  /\ pasted' = <<>>
  /\ UNCHANGED <<instance, sigterm, lock_file, monitor, args_device, stream_device, select, main, device_name>>

\* lines 443-445: if transcribing: return
AdcCheckTranscribing(c) ==
  /\ adc[c] = "a443"
  /\ IF AdcTranscribingGuard
       THEN Return(c)
       ELSE /\ adc' = [adc EXCEPT ![c] = "a449"]
            /\ UNCHANGED <<wd, bound_before>>
  /\ effect' = "none"
  /\ UNCHANGED <<recording, transcribing, stream, stream_healthy, hb_age, audio_queue,
                 last_polled_device_name, sys_default, hk, tpc, audio_data, elapsed,
                 engine, poll_counter, ac, since_restart,
                 overdue, transcript, result>>
  /\ pasted' = <<>>
  /\ UNCHANGED <<instance, sigterm, lock_file, monitor, args_device, stream_device, select, main, device_name>>

\* lines 449-456: stop (if active) and close the bound stream
AdcCloseOld(c) ==
  /\ adc[c] = "a449"
  /\ IF stream # "none"
       THEN /\ CallbackQuiet
            /\ stream' = StopClose(stream)
            /\ adc' = [adc EXCEPT ![c] = "a457"]
            /\ bound_before' = [bound_before EXCEPT ![c] = "bound"]
       ELSE /\ stream' = stream
            /\ adc' = [adc EXCEPT ![c] = "a460"]
            /\ UNCHANGED bound_before
  /\ effect' = "none"
  /\ UNCHANGED <<recording, transcribing, stream_healthy, hb_age, audio_queue,
                 last_polled_device_name, sys_default, hk, tpc, audio_data, elapsed,
                 engine, wd, poll_counter, ac, since_restart,
                 overdue, transcript, result>>
  /\ pasted' = <<>>
  /\ UNCHANGED <<instance, sigterm, lock_file, monitor, args_device, stream_device, select, main, device_name>>

\* line 457: stream = None
AdcUnbind(c) ==
  /\ adc[c] = "a457"
  /\ stream' = "none"
  /\ stream_device' = "None"
  /\ adc' = [adc EXCEPT ![c] = "a460"]
  /\ effect' = "none"
  /\ UNCHANGED <<recording, transcribing, stream_healthy, hb_age, audio_queue,
                 last_polled_device_name, sys_default, hk, tpc, audio_data, elapsed,
                 engine, wd, poll_counter, ac, since_restart,
                 overdue, transcript, result>>
  /\ pasted' = <<>>
  /\ UNCHANGED <<instance, sigterm, lock_file, monitor, args_device, select, main, device_name, bound_before>>

\* lines 485-489: except: stream_healthy = False, notify
AdcFailed(c) ==
  /\ stream_healthy' = FALSE
  /\ effect' = "Failed to switch audio device"
  /\ Return(c)

\* lines 460-464: refresh_sounddevice(), last_polled_device_name = the default's name
AdcRefresh(c) ==
  /\ adc[c] = "a460"
  /\ \E ok \in BOOLEAN :
       IF ok THEN /\ effect' = "refresh_sounddevice"
                  /\ last_polled_device_name' = sys_default
                  /\ adc' = [adc EXCEPT ![c] = "a468"]
                  /\ UNCHANGED <<stream_healthy, wd, bound_before>>
             ELSE /\ UNCHANGED last_polled_device_name
                  /\ AdcFailed(c)
  /\ UNCHANGED <<recording, transcribing, stream, hb_age, audio_queue,
                 sys_default, hk, tpc, audio_data, elapsed,
                 engine, poll_counter, ac, since_restart,
                 overdue, transcript, result>>
  /\ pasted' = <<>>
  /\ UNCHANGED <<instance, sigterm, lock_file, monitor, args_device, stream_device, select, main, device_name>>

\* lines 468-483: select_input_device, query_devices, stream = sd.InputStream(...),
\* stream_healthy = True, update_heartbeat(), notify
AdcCreate(c) ==
  /\ adc[c] = "a468"
  /\ \E ok \in BOOLEAN :
       IF ok THEN /\ stream' = "created"
                  /\ stream_device' = Selected
                  /\ stream_healthy' = TRUE
                  /\ hb_age' = Fresh
                  /\ effect' = "Switched to"
                  /\ Return(c)
             ELSE /\ UNCHANGED <<stream, stream_device, hb_age>>
                  /\ AdcFailed(c)
  /\ UNCHANGED <<recording, transcribing, audio_queue,
                 last_polled_device_name, sys_default, hk, tpc, audio_data, elapsed,
                 engine, poll_counter, ac, since_restart,
                 overdue, transcript, result>>
  /\ pasted' = <<>>
  /\ UNCHANGED <<instance, sigterm, lock_file, monitor, args_device, select, main, device_name>>

apply_device_change(c) ==
  \/ AdcCheckRecording(c) \/ AdcCheckTranscribing(c) \/ AdcCloseOld(c) \/ AdcUnbind(c)
  \/ AdcRefresh(c) \/ AdcCreate(c)

\* the user picks another default input device; DeviceMonitor._property_listener,
\* when it is registered, starts a thread running apply_device_change
DefaultDeviceChanges ==
  /\ \E d \in DeviceNames \ {sys_default} : sys_default' = d
  /\ \/ /\ adc["push"] = "none"
        /\ adc' = [adc EXCEPT !["push"] = "a438"]
     \/ adc' = adc
  /\ effect' = "none"
  /\ UNCHANGED <<recording, transcribing, stream, stream_healthy, hb_age, audio_queue,
                 last_polled_device_name, hk, tpc, audio_data, elapsed,
                 engine, wd, poll_counter, ac, since_restart,
                 overdue, transcript, result>>
  /\ pasted' = <<>>
  /\ UNCHANGED <<instance, sigterm, lock_file, monitor, args_device, stream_device, select, main, device_name, bound_before>>

(* ------------------------- restart_audio_stream ------------------------ *)
\* lines 380-385: stop and close the old stream
RsCloseOld ==
  /\ wd = "r380"
  /\ CallbackQuiet
  /\ stream' = StopClose(stream)
  /\ wd' = "r388"
  /\ effect' = "none"
  /\ UNCHANGED <<recording, transcribing, stream_healthy, hb_age, audio_queue,
                 last_polled_device_name, sys_default, hk, tpc, audio_data, elapsed,
                 engine, poll_counter, adc, ac, since_restart,
                 overdue, transcript, result>>
  /\ pasted' = <<>>
  /\ UNCHANGED <<instance, sigterm, lock_file, monitor, args_device, stream_device, select, main, device_name, bound_before>>

\* lines 388-397: select_input_device, query_devices, stream = sd.InputStream(...)
RsCreate ==
  /\ wd = "r388"
  /\ \E ok \in BOOLEAN :
       IF ok THEN /\ stream' = "created"
                  /\ stream_device' = Selected
                  /\ wd' = "r398"
             ELSE /\ UNCHANGED <<stream, stream_device>>
                  /\ wd' = "r414"
  /\ effect' = "none"
  /\ UNCHANGED <<recording, transcribing, stream_healthy, hb_age, audio_queue,
                 last_polled_device_name, sys_default, hk, tpc, audio_data, elapsed,
                 engine, poll_counter, adc, ac, since_restart,
                 overdue, transcript, result>>
  /\ pasted' = <<>>
  /\ UNCHANGED <<instance, sigterm, lock_file, monitor, args_device, select, main, device_name, bound_before>>

\* line 398: stream.start()
RsStart ==
  /\ wd = "r398"
  /\ \E ok \in BOOLEAN :
       IF ok /\ CanStart(stream)
         THEN /\ stream' = "active"
              /\ wd' = "r405"
         ELSE /\ stream' = stream
              /\ wd' = "r414"
  /\ effect' = "none"
  /\ UNCHANGED <<recording, transcribing, stream_healthy, hb_age, audio_queue,
                 last_polled_device_name, sys_default, hk, tpc, audio_data, elapsed,
                 engine, poll_counter, adc, ac, since_restart,
                 overdue, transcript, result>>
  /\ pasted' = <<>>
  /\ UNCHANGED <<instance, sigterm, lock_file, monitor, args_device, stream_device, select, main, device_name, bound_before>>

\* line 408: the heartbeat a successful restart leaves
RestartHeartbeat(age) == Fresh

\* lines 405-411: stream_healthy (a local of the function: no `global`) = True,
\* update_heartbeat(), notify; back in the watchdog at line 344
RsDone ==
  /\ wd = "r405"
  /\ hb_age' = RestartHeartbeat(hb_age)
  /\ since_restart' = 0
  /\ effect' = "Audio system recovered"
  /\ wd' = "w344"
  /\ UNCHANGED <<recording, transcribing, stream, stream_healthy, audio_queue,
                 last_polled_device_name, sys_default, hk, tpc, audio_data, elapsed,
                 engine, poll_counter, adc, ac,
                 overdue, transcript, result>>
  /\ pasted' = <<>>
  /\ UNCHANGED <<instance, sigterm, lock_file, monitor, args_device, stream_device, select, main, device_name, bound_before>>

\* lines 413-418: except: stream_healthy (local) = False, recording = False, notify
RsFail ==
  /\ wd = "r414"
  /\ recording' = FALSE
  /\ since_restart' = 0
  /\ effect' = "Failed to restart audio"
  /\ wd' = "w344"
  /\ UNCHANGED <<transcribing, stream, stream_healthy, hb_age, audio_queue,
                 last_polled_device_name, sys_default, hk, tpc, audio_data, elapsed,
                 engine, poll_counter, adc, ac,
                 overdue, transcript, result>>
  /\ pasted' = <<>>
  /\ UNCHANGED <<instance, sigterm, lock_file, monitor, args_device, stream_device, select, main, device_name, bound_before>>

restart_audio_stream == RsCloseOld \/ RsCreate \/ RsStart \/ RsDone \/ RsFail

(* --------------------------- watchdog_monitor -------------------------- *)
\* line 322: if recording
WdCheckRecording ==
  /\ wd = "w322"
  /\ wd' = IF recording THEN "w323" ELSE "w344"
  /\ effect' = "none"
  /\ UNCHANGED <<recording, transcribing, stream, stream_healthy, hb_age, audio_queue,
                 last_polled_device_name, sys_default, hk, tpc, audio_data, elapsed,
                 engine, poll_counter, adc, ac, since_restart,
                 overdue, transcript, result>>
  /\ pasted' = <<>>
  /\ UNCHANGED <<instance, sigterm, lock_file, monitor, args_device, stream_device, select, main, device_name, bound_before>>

\* lines 323-330: stalled when the heartbeat is older than audio_timeout
WdCheckHeartbeat ==
  /\ wd = "w323"
  /\ IF Stale(hb_age)
       THEN /\ effect' = "Audio system stalled, recovering..."
            /\ wd' = "r380"
       ELSE /\ effect' = "none"
            /\ wd' = "w344"
  /\ UNCHANGED <<recording, transcribing, stream, stream_healthy, hb_age, audio_queue,
                 last_polled_device_name, sys_default, hk, tpc, audio_data, elapsed,
                 engine, poll_counter, adc, ac, since_restart,
                 overdue, transcript, result>>
  /\ pasted' = <<>>
  /\ UNCHANGED <<instance, sigterm, lock_file, monitor, args_device, stream_device, select, main, device_name, bound_before>>

\* lines 720-725: test_microphone_access catches whatever check_input_settings raises
test_microphone_access(ok) == TRUE

\* lines 333-341: idle probe, one tick in ten; stream_healthy = True unless the
\* probe raised; ok is what sd.check_input_settings() found (lines 722-725)
WdProbe ==
  /\ wd = "w322"
  /\ ~recording /\ ~transcribing /\ stream = "none"
  /\ \E ok \in BOOLEAN :
       /\ stream_healthy' = test_microphone_access(ok)
       /\ effect' = IF ok THEN "Microphone access test passed."
                         ELSE "Microphone access test failed"
  /\ wd' = "w344"
  /\ UNCHANGED <<recording, transcribing, stream, hb_age, audio_queue,
                 last_polled_device_name, sys_default, hk, tpc, audio_data, elapsed,
                 engine, poll_counter, adc, ac, since_restart,
                 overdue, transcript, result>>
  /\ pasted' = <<>>
  /\ UNCHANGED <<instance, sigterm, lock_file, monitor, args_device, stream_device, select, main, device_name, bound_before>>

\* lines 344-346 and 362: count the tick; poll on every PollIntervalTicks-th one
\* when idle, else sleep and start the next iteration
WdCount ==
  /\ wd = "w344"
  /\ IF poll_counter + 1 >= PollIntervalTicks /\ ~recording /\ ~transcribing
       THEN /\ poll_counter' = 0
            /\ wd' = "w349"
       ELSE /\ poll_counter' = Min(poll_counter + 1, PollIntervalTicks)
            /\ wd' = "w322"
  /\ effect' = "none"
  /\ UNCHANGED <<recording, transcribing, stream, stream_healthy, hb_age, audio_queue,
                 last_polled_device_name, sys_default, hk, tpc, audio_data, elapsed,
                 engine, adc, ac, since_restart,
                 overdue, transcript, result>>
  /\ pasted' = <<>>
  /\ UNCHANGED <<instance, sigterm, lock_file, monitor, args_device, stream_device, select, main, device_name, bound_before>>

\* the comparison of line 352 never finding a change
PollSeesNoChange == FALSE

\* line 352: a name was polled before and the default's name differs from it
PollSeesChange ==
  last_polled_device_name # "None" /\ sys_default # last_polled_device_name

\* lines 347-362: refresh, compare the default's name with the last one polled
WdPoll ==
  /\ wd = "w349"
  /\ \E ok \in BOOLEAN :
       IF ~ok
         THEN /\ effect' = "none"
              /\ wd' = "w322"
              /\ UNCHANGED <<last_polled_device_name, adc>>
         ELSE /\ effect' = "refresh_sounddevice"
              /\ IF PollSeesChange
                   THEN /\ adc' = [adc EXCEPT !["poll"] = "a438"]
                        /\ wd' = "apply"
                        /\ UNCHANGED last_polled_device_name
                   ELSE /\ last_polled_device_name' = sys_default
                        /\ wd' = "w322"
                        /\ UNCHANGED adc
  /\ UNCHANGED <<recording, transcribing, stream, stream_healthy, hb_age, audio_queue,
                 sys_default, hk, tpc, audio_data, elapsed,
                 engine, poll_counter, ac, since_restart,
                 overdue, transcript, result>>
  /\ pasted' = <<>>
  /\ UNCHANGED <<instance, sigterm, lock_file, monitor, args_device, stream_device, select, main, device_name, bound_before>>

\* lines 323-327 raise outside the inner try blocks: the except clause of line 364
WdFault ==
  /\ wd = "w323"
  /\ effect' = "Watchdog error"
  /\ wd' = "w365"
  /\ UNCHANGED <<recording, transcribing, stream, stream_healthy, hb_age, audio_queue,
                 last_polled_device_name, sys_default, hk, tpc, audio_data, elapsed,
                 engine, poll_counter, adc, ac, since_restart,
                 overdue, transcript, result>>
  /\ pasted' = <<>>
  /\ UNCHANGED <<instance, sigterm, lock_file, monitor, args_device, stream_device, select, main, device_name, bound_before>>

\* the except clause of line 364 ending the thread instead of sleeping
WdBackoffEnds ==
  /\ wd = "w365"
  /\ effect' = "none"
  /\ wd' = "ended"
  /\ UNCHANGED <<recording, transcribing, stream, stream_healthy, hb_age, audio_queue,
                 last_polled_device_name, sys_default, hk, tpc, audio_data, elapsed,
                 engine, poll_counter, adc, ac, since_restart,
                 overdue, transcript, result>>
  /\ pasted' = <<>>
  /\ UNCHANGED <<instance, sigterm, lock_file, monitor, args_device, stream_device, select, main, device_name, bound_before>>

\* lines 365-367 and 319: log, time.sleep(5), next iteration
WdBackoff ==
  /\ wd = "w365"
  /\ effect' = "none"
  /\ wd' = "w322"
  /\ UNCHANGED <<recording, transcribing, stream, stream_healthy, hb_age, audio_queue,
                 last_polled_device_name, sys_default, hk, tpc, audio_data, elapsed,
                 engine, poll_counter, adc, ac, since_restart,
                 overdue, transcript, result>>
  /\ pasted' = <<>>
  /\ UNCHANGED <<instance, sigterm, lock_file, monitor, args_device, stream_device, select, main, device_name, bound_before>>

watchdog_monitor ==
  \/ WdCheckRecording \/ WdCheckHeartbeat \/ WdProbe \/ WdCount \/ WdPoll
  \/ WdFault \/ WdBackoff

(* ---------------------------- specifications --------------------------- *)
\* no --device was given and the default input device is the one polled last:
\* no device change is pending; the log holds the transcript of an earlier run
InitSettled ==
  /\ Init
  /\ sys_default = "mic_a"
  /\ args_device = "None"
  /\ last_polled_device_name = sys_default
  /\ transcript = <<"a", " ">>

\* no --device was given: streams are opened on the system default
InitDevice ==
  /\ Init
  /\ sys_default = "mic_a"
  /\ args_device = "None"
  /\ transcript = <<"a", " ">>

\* any --device: the polled name starts as the selected device's name (line
\* 820), which need not be the default's
InitPoll ==
  /\ Init
  /\ sys_default = "mic_a"
  /\ transcript = <<"a", " ">>

\* hotkey thread, transcription threads, engine threads, PortAudio callback
NextSession ==
  \/ toggle_recording
  \/ \E p \in Pipelines : transcribe_audio(p)
  \/ \E p \in Pipelines : EngineFinish(p)
  \/ audio_callback
  \/ TickBudget

Spec == InitSettled /\ [][NextSession]_vars

\* threads are scheduled fairly and the clock advances; the engine need not return
SpecFair ==
  /\ Spec
  /\ \A p \in Pipelines : WF_vars(transcribe_audio(p))
  /\ WF_vars(TickBudget)

\* toggle_recording with the stop branch waiting for the previous
\* transcription thread to end: one transcription thread at a time
toggle_recording_serial ==
  \/ ToggleEnter \/ ToggleCheckStream \/ ToggleCloseOld
  \/ ToggleSelect \/ ToggleCreate \/ ToggleStart \/ ToggleVerify
  \/ ToggleSetRecording \/ ToggleHeartbeat
  \/ (FreeSlots = Pipelines /\ ToggleStop)

\* transcribe_audio on recordings that hold no audio or only silence
transcribe_audio_quiet ==
  \/ TrBegin(1) \/ TrDrain(1) \/ TrEmpty(1) \/ TrSilent(1) \/ TrFinally(1)

\* hotkey thread, one transcription thread, the push notifier's threads, the
\* watchdog with its polling fallback, PortAudio callback; no stall
NextDevice ==
  \/ toggle_recording_serial
  \/ transcribe_audio_quiet
  \/ audio_callback_quiet
  \/ watchdog_monitor
  \/ DefaultDeviceChanges
  \/ \E c \in Callers : apply_device_change(c)

SpecDevice == InitDevice /\ [][NextDevice]_vars

\* the session with the watchdog's polling fallback, under any --device; the
\* system default input device never changes
NextPoll ==
  \/ toggle_recording_serial
  \/ transcribe_audio_quiet
  \/ audio_callback_quiet
  \/ watchdog_monitor
  \/ apply_device_change("poll")

SpecPoll == InitPoll /\ [][NextPoll]_vars

\* the watchdog thread and the PortAudio thread are scheduled
SpecPollFair ==
  /\ SpecPoll
  /\ WF_vars(watchdog_monitor \/ apply_device_change("poll"))
  /\ WF_vars(audio_callback_quiet)

\* transcribe_audio on recordings that hold no audio
transcribe_audio_empty ==
  \/ TrBegin(1) \/ TrDrain(1) \/ TrEmpty(1) \/ TrFinally(1)

\* the watchdog thread with everything it calls, beside the hotkey thread, one
\* transcription thread and the clock; the audio system has stalled silently:
\* PortAudio invokes no callback
NextTick ==
  \/ watchdog_monitor
  \/ restart_audio_stream
  \/ apply_device_change("poll")
  \/ toggle_recording_serial
  \/ transcribe_audio_empty
  \/ TickHeartbeat

\* --device names a microphone that is not the default one, and its stream
\* was pre-initialised
InitTick ==
  /\ InitPoll
  /\ args_device = "mic_b"
  /\ stream = "created"

SpecTick == InitTick /\ [][NextTick]_vars

\* the watchdog thread is scheduled
SpecTickFair ==
  /\ SpecTick
  /\ WF_vars(watchdog_monitor \/ restart_audio_stream \/ apply_device_change("poll"))

\* hotkey thread, one transcription thread, the watchdog with stall recovery,
\* PortAudio callback, the clock; the default device does not change
NextWatchdog ==
  \/ toggle_recording_serial
  \/ transcribe_audio_quiet
  \/ audio_callback_quiet
  \/ watchdog_monitor
  \/ restart_audio_stream
  \/ TickHeartbeat

SpecWatchdog == InitSettled /\ [][NextWatchdog]_vars

\* the session with the repaste hotkey (F2, lines 126-129), on a log that may
\* hold no transcript
InitPaste ==
  /\ Init
  /\ sys_default = "mic_a"
  /\ args_device = "None"
  /\ last_polled_device_name = sys_default

NextPaste ==
  \/ NextSession
  \/ repaste_last_transcription

SpecPaste == InitPaste /\ [][NextPaste]_vars

\* select_input_device called on each argument, device list and default
InitSelect ==
  /\ recording = FALSE
  /\ transcribing = FALSE
  /\ stream = "none"
  /\ stream_healthy = FALSE
  /\ hb_age = Fresh
  /\ audio_queue = <<>>
  /\ sys_default = "mic_a"
  /\ last_polled_device_name = sys_default
  /\ hk = "idle"
  /\ tpc = [p \in Pipelines |-> "none"]
  /\ audio_data = [p \in Pipelines |-> <<>>]
  /\ elapsed = [p \in Pipelines |-> 0]
  /\ engine = [p \in Pipelines |-> "none"]
  /\ wd = "w322"
  /\ poll_counter = 0
  /\ adc = [c \in Callers |-> "none"]
  /\ ac = "idle"
  /\ since_restart = -1
  /\ effect = "none"
  /\ overdue = [p \in Pipelines |-> FALSE]
  /\ result = [p \in Pipelines |-> <<>>]
  /\ transcript = <<>>
  /\ pasted = <<>>
  /\ args_device = "None"
  /\ device_name = sys_default
  /\ stream_device = "None"
  /\ main = "ready"
  /\ select \in Calls
  /\ bound_before = [c \in Callers |-> "none"]
  /\ instance = OneInstance
  /\ sigterm = {}
  /\ lock_file = 1
  /\ monitor = NewMonitor

SpecSelect == InitSelect /\ [][SelectCall]_vars

\* a transcription thread at line 688 whose engine returned any of the texts,
\* followed by repastes
InitText ==
  /\ recording = FALSE
  /\ transcribing = TRUE
  /\ stream = "active"
  /\ stream_healthy = TRUE
  /\ hb_age = Fresh
  /\ audio_queue = <<>>
  /\ sys_default = "mic_a"
  /\ last_polled_device_name = sys_default
  /\ hk = "idle"
  /\ tpc = [p \in Pipelines |-> IF p = 1 THEN "t688" ELSE "none"]
  /\ audio_data = [p \in Pipelines |-> IF p = 1 THEN <<10>> ELSE <<>>]
  /\ elapsed = [p \in Pipelines |-> 0]
  /\ engine = [p \in Pipelines |-> IF p = 1 THEN "success" ELSE "none"]
  /\ wd = "w322"
  /\ poll_counter = 0
  /\ adc = [c \in Callers |-> "none"]
  /\ ac = "idle"
  /\ since_restart = -1
  /\ effect = "none"
  /\ overdue = [p \in Pipelines |-> FALSE]
  /\ \E raw \in Texts : result = [p \in Pipelines |-> IF p = 1 THEN raw ELSE <<>>]
  /\ args_device = "None"
  /\ device_name = sys_default
  /\ stream_device = sys_default
  /\ main = "ready"
  /\ select = NoCall
  /\ bound_before = [c \in Callers |-> "none"]
  /\ instance = OneInstance
  /\ sigterm = {}
  /\ lock_file = 1
  /\ monitor = NewMonitor
  /\ transcript \in {<<>>, <<"a", " ">>}
  /\ pasted = <<>>

NextText ==
  \/ \E p \in Pipelines : TrDeliver(p)
  \/ \E p \in Pipelines : TrException(p)
  \/ \E p \in Pipelines : TrFinally(p)
  \/ repaste_last_transcription

SpecText == InitText /\ [][NextText]_vars

\* the default input device changes once, from mic_a to mic_b
DeviceChangesOnce == sys_default = "mic_a" /\ DefaultDeviceChanges

\* a polling cycle whose refresh and name query succeed
WdPolled == WdPoll /\ effect' = "refresh_sounddevice"

\* hotkey thread, one transcription thread, the watchdog with its polling
\* fallback and the push notifier, around one change of the default device
NextLate ==
  \/ toggle_recording_serial
  \/ transcribe_audio_empty
  \/ watchdog_monitor
  \/ DeviceChangesOnce
  \/ \E c \in Callers : apply_device_change(c)

SpecLate == InitDevice /\ [][NextLate]_vars

\* the watchdog thread is scheduled, and refresh_sounddevice does not fail
\* forever
SpecLateFair ==
  /\ SpecLate
  /\ WF_vars(watchdog_monitor \/ apply_device_change("poll"))
  /\ SF_vars(WdPolled)

(* ------------------------------ __main__ ------------------------------- *)
\* lines 787-793 and 810-812: pre-initialisation finds the input device; when
\* select_input_device or sd.query_devices raises, the except clause logs and
\* device_name was never assigned
MainSelect ==
  /\ main = "m787"
  /\ \E ok \in BOOLEAN :
       IF ok THEN /\ device_name' = Selected
                  /\ main' = "m795"
             ELSE /\ device_name' = device_name
                  /\ main' = "m816"
  /\ effect' = "none"
  /\ UNCHANGED <<recording, transcribing, stream, stream_healthy, hb_age, audio_queue,
                 last_polled_device_name, sys_default, hk, tpc, audio_data, elapsed,
                 engine, wd, poll_counter, adc, ac, since_restart,
                 overdue, transcript, result>>
  /\ pasted' = <<>>
  /\ UNCHANGED <<instance, sigterm, lock_file, monitor, args_device, stream_device, select, bound_before>>

\* lines 795-812: open the stream without starting it; when sd.InputStream
\* raises, the except clause logs and no stream is bound
MainCreate ==
  /\ main = "m795"
  /\ \E ok \in BOOLEAN :
       IF ok THEN /\ stream' = "created"
                  /\ stream_device' = device_name
                  /\ hb_age' = Fresh
                  /\ stream_healthy' = TRUE
             ELSE UNCHANGED <<stream, stream_device, hb_age, stream_healthy>>
  /\ main' = "m816"
  /\ effect' = "none"
  /\ UNCHANGED <<recording, transcribing,  audio_queue,
                 last_polled_device_name, sys_default, hk, tpc, audio_data, elapsed,
                 engine, wd, poll_counter, adc, ac, since_restart,
                 overdue, transcript, result>>
  /\ pasted' = <<>>
  /\ UNCHANGED <<instance, sigterm, lock_file, monitor, args_device, select, device_name, bound_before>>

\* lines 814-817: start the watchdog thread
MainStartWatchdog ==
  /\ main = "m816"
  /\ wd' = "w322"
  /\ main' = "m820"
  /\ effect' = "none"
  /\ UNCHANGED <<recording, transcribing, stream, stream_healthy, hb_age, audio_queue,
                 last_polled_device_name, sys_default, hk, tpc, audio_data, elapsed,
                 engine, poll_counter, adc, ac, since_restart,
                 overdue, transcript, result>>
  /\ pasted' = <<>>
  /\ UNCHANGED <<instance, sigterm, lock_file, monitor, args_device, stream_device, select, device_name, bound_before>>

\* line 820: last_polled_device_name = device_name; a NameError when
\* device_name was never assigned, caught at line 854, which notifies and
\* re-raises (lines 855-858)
MainBaseline ==
  /\ main = "m820"
  /\ IF device_name = "unbound"
       THEN /\ effect' = "Program crashed, please restart"
            /\ main' = "crashed"
            /\ UNCHANGED last_polled_device_name
       ELSE /\ effect' = "none"
            /\ main' = "m824"
            /\ last_polled_device_name' = device_name
  /\ UNCHANGED <<recording, transcribing, stream, stream_healthy, hb_age, audio_queue,
                 sys_default, hk, tpc, audio_data, elapsed,
                 engine, wd, poll_counter, adc, ac, since_restart,
                 overdue, transcript, result>>
  /\ pasted' = <<>>
  /\ UNCHANGED <<instance, sigterm, lock_file, monitor, args_device, stream_device, select, device_name, bound_before>>

\* lines 822-829: start the CoreAudio device monitor, or go on without it
MainStartMonitor ==
  /\ main = "m824"
  /\ main' = "m832"
  /\ effect' = "none"
  /\ UNCHANGED <<recording, transcribing, stream, stream_healthy, hb_age, audio_queue,
                 last_polled_device_name, sys_default, hk, tpc, audio_data, elapsed,
                 engine, wd, poll_counter, adc, ac, since_restart,
                 overdue, transcript, result>>
  /\ pasted' = <<>>
  /\ UNCHANGED <<instance, sigterm, lock_file, monitor, args_device, stream_device, select, device_name, bound_before>>

\* line 832, then the idle loop of lines 835-837
MainReady ==
  /\ main = "m832"
  /\ main' = "ready"
  /\ effect' = "Ready (F1=record, F2=repaste)"
  /\ UNCHANGED <<recording, transcribing, stream, stream_healthy, hb_age, audio_queue,
                 last_polled_device_name, sys_default, hk, tpc, audio_data, elapsed,
                 engine, wd, poll_counter, adc, ac, since_restart,
                 overdue, transcript, result>>
  /\ pasted' = <<>>
  /\ UNCHANGED <<instance, sigterm, lock_file, monitor, args_device, stream_device, select, device_name, bound_before>>

main_block ==
  \/ MainSelect \/ MainCreate \/ MainStartWatchdog
  \/ MainBaseline \/ MainStartMonitor \/ MainReady

\* the globals of lines 52-61 when the main thread reaches line 787
InitStartup ==
  /\ recording = FALSE
  /\ transcribing = FALSE
  /\ stream = "none"
  /\ stream_healthy = FALSE
  /\ hb_age = Fresh
  /\ audio_queue = <<>>
  /\ sys_default \in DeviceNames
  /\ args_device \in {"None"} \cup DeviceNames
  /\ device_name = "unbound"
  /\ last_polled_device_name = "None"
  /\ stream_device = "None"
  /\ main = "m787"
  /\ select = NoCall
  /\ bound_before = [c \in Callers |-> "none"]
  /\ instance = OneInstance
  /\ sigterm = {}
  /\ lock_file = 1
  /\ monitor = NewMonitor
  /\ hk = "idle"
  /\ tpc = [p \in Pipelines |-> "none"]
  /\ audio_data = [p \in Pipelines |-> <<>>]
  /\ elapsed = [p \in Pipelines |-> 0]
  /\ engine = [p \in Pipelines |-> "none"]
  /\ wd = "unstarted"
  /\ poll_counter = 0
  /\ adc = [c \in Callers |-> "none"]
  /\ ac = "idle"
  /\ since_restart = -1
  /\ effect = "none"
  /\ overdue = [p \in Pipelines |-> FALSE]
  /\ result = [p \in Pipelines |-> <<>>]
  /\ transcript \in {<<>>, <<"a", " ">>}
  /\ pasted = <<>>

\* the main thread from line 787 on, the watchdog thread once started, and the
\* hotkey thread with its transcription thread and the PortAudio callback once
\* the user has seen "Ready"; when the main thread re-raises at line 858 the
\* process ends and its daemon threads with it
NextStartup ==
  \/ main_block
  \/ (main # "crashed" /\ watchdog_monitor)
  \/ (main # "crashed" /\ apply_device_change("poll"))
  \/ (main = "ready" /\ toggle_recording_serial)
  \/ (main = "ready" /\ transcribe_audio_quiet)
  \/ (main = "ready" /\ audio_callback_quiet)

SpecStartup == InitStartup /\ [][NextStartup]_vars

(* ------------------- lock file and kill_old_processes ------------------ *)
\* psutil.pid_exists(pid)
pid_exists(pid) == instance[pid] \notin {"off", "gone"}

\* process i has no SIGTERM pending: it goes on executing statements
Unsignalled(i) == i \notin sigterm

\* a user or a login item launches dictate.py as process i
InstanceStarts(i) ==
  /\ instance[i] = "off"
  /\ instance' = [instance EXCEPT ![i] = "m746"]
  /\ UNCHANGED <<session, sigterm, lock_file, monitor>>

\* lines 95-104 called at line 746: SIGTERM to every other process pgrep finds
kill_old_processes(i) ==
  /\ instance[i] = "m746"
  /\ Unsignalled(i)
  /\ sigterm' = sigterm \cup {j \in Instances \ {i} : pid_exists(j)}
  /\ instance' = [instance EXCEPT ![i] = "m755"]
  /\ UNCHANGED <<session, lock_file, monitor>>

\* SIGTERM delivered before line 777 installed a handler: the default action
\* ends the process at its next return to user mode, so the process executes
\* no statement between generation and delivery (see Unsignalled); nothing
\* registered with atexit runs
SigtermDefault(i) ==
  /\ i \in sigterm
  /\ instance[i] \in {"m746", "m755", "l83", "m756"}
  /\ sigterm' = sigterm \ {i}
  /\ instance' = [instance EXCEPT ![i] = "gone"]
  /\ UNCHANGED <<session, lock_file, monitor>>

\* SIGTERM delivered after line 777: signal_exit_handler runs lines 758-768
SigtermHandler(i) ==
  /\ i \in sigterm
  /\ instance[i] = "m781"
  /\ sigterm' = sigterm \ {i}
  /\ instance' = [instance EXCEPT ![i] = "h769"]
  /\ UNCHANGED <<session, lock_file, monitor>>

\* lines 769 and 86-89: cleanup_lock_file() removes the file whatever pid it
\* holds
HandlerCleanup(i) ==
  /\ instance[i] = "h769"
  /\ lock_file' = NoFile
  /\ instance' = [instance EXCEPT ![i] = "h770"]
  /\ UNCHANGED <<session, sigterm, monitor>>

\* lines 770-776: stop and close the stream, os._exit(0)
HandlerExit(i) ==
  /\ instance[i] = "h770"
  /\ instance' = [instance EXCEPT ![i] = "gone"]
  /\ UNCHANGED <<session, sigterm, lock_file, monitor>>

\* the test of line 78 taken as never finding the old process
LockCheckBlind(i) ==
  /\ instance[i] = "m755"
  /\ Unsignalled(i)
  /\ instance' = [instance EXCEPT ![i] = "l83"]
  /\ UNCHANGED <<session, sigterm, lock_file, monitor>>

\* lines 76-81: exit when the file names a process that exists
LockCheck(i) ==
  /\ instance[i] = "m755"
  /\ Unsignalled(i)
  /\ instance' = [instance EXCEPT ![i] =
                    IF lock_file # NoFile /\ pid_exists(lock_file) THEN "gone" ELSE "l83"]
  /\ UNCHANGED <<session, sigterm, lock_file, monitor>>

\* lines 83-84: write the own pid
LockWrite(i) ==
  /\ instance[i] = "l83"
  /\ Unsignalled(i)
  /\ lock_file' = i
  /\ instance' = [instance EXCEPT ![i] = "m756"]
  /\ UNCHANGED <<session, sigterm, monitor>>

\* lines 756-777: atexit.register, signal.signal for SIGINT and SIGTERM
InstallHandlers(i) ==
  /\ instance[i] = "m756"
  /\ Unsignalled(i)
  /\ instance' = [instance EXCEPT ![i] = "m781"]
  /\ UNCHANGED <<session, sigterm, lock_file, monitor>>

setup_lock_file(i) == LockCheck(i) \/ LockWrite(i)

\* no instance is running and no lock file is left
InitLock ==
  /\ recording = FALSE
  /\ transcribing = FALSE
  /\ stream = "none"
  /\ stream_healthy = FALSE
  /\ hb_age = Fresh
  /\ audio_queue = <<>>
  /\ sys_default = "mic_a"
  /\ args_device = "None"
  /\ device_name = "unbound"
  /\ last_polled_device_name = "None"
  /\ stream_device = "None"
  /\ main = "m787"
  /\ select = NoCall
  /\ bound_before = [c \in Callers |-> "none"]
  /\ hk = "idle"
  /\ tpc = [p \in Pipelines |-> "none"]
  /\ audio_data = [p \in Pipelines |-> <<>>]
  /\ elapsed = [p \in Pipelines |-> 0]
  /\ engine = [p \in Pipelines |-> "none"]
  /\ wd = "unstarted"
  /\ poll_counter = 0
  /\ adc = [c \in Callers |-> "none"]
  /\ ac = "idle"
  /\ since_restart = -1
  /\ effect = "none"
  /\ overdue = [p \in Pipelines |-> FALSE]
  /\ result = [p \in Pipelines |-> <<>>]
  /\ transcript = <<>>
  /\ pasted = <<>>
  /\ instance = [i \in Instances |-> "off"]
  /\ sigterm = {}
  /\ lock_file = NoFile
  /\ monitor = NewMonitor

\* the processes started from dictate.py, each up to its whisper.load_model,
\* and the kernel delivering their signals
NextLock ==
  \E i \in Instances :
    \/ InstanceStarts(i)
    \/ kill_old_processes(i)
    \/ setup_lock_file(i)
    \/ InstallHandlers(i)
    \/ SigtermDefault(i)
    \/ SigtermHandler(i)
    \/ HandlerCleanup(i)
    \/ HandlerExit(i)

SpecLock == InitLock /\ [][NextLock]_vars

(* ----------------------- DeviceMonitor operations ---------------------- *)
\* line 205 without the comparison with the last recorded id
ChangedAny(new, last) == new # NoId

\* line 205: the id read is not None and differs from the last recorded one
Changed(new, last) == new # NoId /\ new # last

\* the user picks another default input device in the system settings
DefaultInputChanges ==
  /\ \E id \in DeviceIds \ {monitor.default_id} :
       monitor' = [monitor EXCEPT !.default_id = id]
  /\ UNCHANGED <<session, instance, sigterm, lock_file>>

\* lines 199-221: CoreAudio invokes the registered listener, on a change of the
\* property or spuriously; get_default_input_device_id() returns None when the
\* query fails
_property_listener ==
  /\ monitor.registered
  /\ \E new \in {NoId, monitor.default_id} :
       monitor' = IF Changed(new, monitor.last_device_id)
                    THEN [monitor EXCEPT !.last_device_id = new,
                                         !.callback = <<monitor.last_device_id, new>>]
                    ELSE monitor
  /\ UNCHANGED <<session, instance, sigterm, lock_file>>

\* lines 256-274: start(), called once (dictate.py line 826)
MonitorStart ==
  /\ monitor.start = "none"
  /\ \E id \in {NoId, monitor.default_id} :
       monitor' = [monitor EXCEPT !.last_device_id = id, !.running = TRUE,
                                  !.thread = "m227", !.start = "returned"]
  /\ UNCHANGED <<session, instance, sigterm, lock_file>>

\* line 227: self._callback_ref = AudioObjectPropertyListenerProc(...)
ThreadMakeRef ==
  /\ monitor.thread = "m227"
  /\ monitor' = [monitor EXCEPT !.callback_ref = TRUE, !.thread = "m229"]
  /\ UNCHANGED <<session, instance, sigterm, lock_file>>

\* lines 229-241 and 253-254: AudioObjectAddPropertyListener; on an error
\* status the thread ends with _running = False
ThreadRegister ==
  /\ monitor.thread = "m229"
  /\ \E ok \in BOOLEAN :
       monitor' = IF ok THEN [monitor EXCEPT !.registered = TRUE, !.thread = "m244"]
                        ELSE [monitor EXCEPT !.running = FALSE, !.thread = "ended"]
  /\ UNCHANGED <<session, instance, sigterm, lock_file>>

\* line 244: self._runloop = CFRunLoopGetCurrent()
ThreadGetLoop ==
  /\ monitor.thread = "m244"
  /\ monitor' = [monitor EXCEPT !.runloop = TRUE, !.thread = "m247"]
  /\ UNCHANGED <<session, instance, sigterm, lock_file>>

\* line 247: CFRunLoopRun() is entered and blocks
ThreadRun ==
  /\ monitor.thread = "m247"
  /\ monitor' = [monitor EXCEPT !.thread = "running"]
  /\ UNCHANGED <<session, instance, sigterm, lock_file>>

\* lines 249-254: CFRunLoopRun() has returned; finally: _running = False
ThreadLoopStopped ==
  /\ monitor.thread = "stopping"
  /\ monitor' = [monitor EXCEPT !.running = FALSE, !.thread = "ended"]
  /\ UNCHANGED <<session, instance, sigterm, lock_file>>

_run_loop_thread ==
  ThreadMakeRef \/ ThreadRegister \/ ThreadGetLoop \/ ThreadRun \/ ThreadLoopStopped

\* lines 278-282: stop() returns at once when not running, else _running = False
MonitorStopEnter ==
  /\ monitor.start = "returned"
  /\ monitor.stop = "none"
  /\ monitor' = IF ~monitor.running
                    THEN [monitor EXCEPT !.stop = "returned"]
                    ELSE [monitor EXCEPT !.running = FALSE, !.stop = "s285"]
  /\ UNCHANGED <<session, instance, sigterm, lock_file>>

\* lines 285-298: remove the listener if a callback reference is held
MonitorStopRemove ==
  /\ monitor.stop = "s285"
  /\ monitor' = [monitor EXCEPT
                    !.registered = IF monitor.callback_ref THEN FALSE ELSE @,
                    !.stop = "s301"]
  /\ UNCHANGED <<session, instance, sigterm, lock_file>>

\* lines 301-305: CFRunLoopStop if a run loop is held; it ends a CFRunLoopRun
\* that is in progress
MonitorStopLoop ==
  /\ monitor.stop = "s301"
  /\ monitor' = [monitor EXCEPT
                    !.thread = IF monitor.runloop /\ @ = "running" THEN "stopping" ELSE @,
                    !.stop = "s307"]
  /\ UNCHANGED <<session, instance, sigterm, lock_file>>

\* lines 307-308: forget the run loop and the callback reference; stop() returns
MonitorStopClear ==
  /\ monitor.stop = "s307"
  /\ monitor' = [monitor EXCEPT !.runloop = FALSE, !.callback_ref = FALSE,
                                 !.stop = "returned"]
  /\ UNCHANGED <<session, instance, sigterm, lock_file>>

MonitorStop ==
  MonitorStopEnter \/ MonitorStopRemove \/ MonitorStopLoop \/ MonitorStopClear

\* the session is idle; the monitor was constructed (dictate.py line 825)
InitMonitor ==
  /\ recording = FALSE
  /\ transcribing = FALSE
  /\ stream = "none"
  /\ stream_healthy = FALSE
  /\ hb_age = Fresh
  /\ audio_queue = <<>>
  /\ sys_default = "mic_a"
  /\ args_device = "None"
  /\ device_name = "unbound"
  /\ last_polled_device_name = "None"
  /\ stream_device = "None"
  /\ main = "m787"
  /\ select = NoCall
  /\ bound_before = [c \in Callers |-> "none"]
  /\ hk = "idle"
  /\ tpc = [p \in Pipelines |-> "none"]
  /\ audio_data = [p \in Pipelines |-> <<>>]
  /\ elapsed = [p \in Pipelines |-> 0]
  /\ engine = [p \in Pipelines |-> "none"]
  /\ wd = "unstarted"
  /\ poll_counter = 0
  /\ adc = [c \in Callers |-> "none"]
  /\ ac = "idle"
  /\ since_restart = -1
  /\ effect = "none"
  /\ overdue = [p \in Pipelines |-> FALSE]
  /\ result = [p \in Pipelines |-> <<>>]
  /\ transcript = <<>>
  /\ pasted = <<>>
  /\ instance = OneInstance
  /\ sigterm = {}
  /\ lock_file = 1
  /\ \E id \in DeviceIds : monitor = [NewMonitor EXCEPT !.default_id = id]

\* the thread calling start() and stop(), the run-loop thread, CoreAudio
NextMonitor ==
  \/ MonitorStart
  \/ _run_loop_thread
  \/ MonitorStop
  \/ _property_listener
  \/ DefaultInputChanges

SpecMonitor == InitMonitor /\ [][NextMonitor]_vars

(* -------------------------------- phases ------------------------------- *)
Idle == ~recording /\ ~transcribing
Recording == recording /\ ~transcribing
Transcribing == transcribing /\ ~recording

\* transcription threads that are executing the body of transcribe_audio
Running == {p \in Pipelines : tpc[p] \notin {"none", "t612"}}
\* transcription threads started and not yet ended
Started == {p \in Pipelines : tpc[p] # "none"}

(* -------------------------------- claims ------------------------------- *)
\* C1: recording and transcribing are never both true.
C1_FlagsExclusive == ~(recording /\ transcribing)

\* C3: at most one transcribe_audio run is executing at any time.
C3_OnePipeline == Cardinality(Running) <= 1

\* C4: a toggle that finds transcribing set returns at once: it changes none of
\* the globals, starts no thread and shows only the "Please wait" notice.
C4_ToggleIgnored ==
  [][(ToggleEnter /\ transcribing) =>
       /\ hk' = "idle"
       /\ effect' = "Please wait, transcribing..."
       /\ UNCHANGED <<recording, transcribing, stream, stream_healthy, hb_age,
                      audio_queue, tpc, engine, transcript>>
       /\ pasted' = <<>>]_vars

C4_Witness ==
  /\ effect = "Please wait, transcribing..."
  /\ Transcribing
  /\ hk = "idle"

\* C5: when a transcribe_audio run ends, both flags are false.
C5_EndsIdle ==
  [][\A p \in Pipelines :
       (tpc[p] = "finally" /\ tpc'[p] = "none") => (~recording' /\ ~transcribing')]_vars

\* C7: from the stop toggle until the transcription thread it started has ended,
\* the phase is never Idle.
C7_NeverIdleBeforeEnd == (Started # {}) => ~Idle

\* C2: whenever recording is true, the bound stream exists and is started.
C2_RecordingStreamStarted == recording => stream = "active"

\* C6: every transcription thread a stop toggle starts ends, leaving transcribing
\* false, even when the engine never returns.
C6_LeavesTranscribing ==
  \A p \in Pipelines :
    (tpc[p] = "t612") ~> (tpc[p] = "none" /\ ~transcribing)

C6_Witness ==
  \E p \in Pipelines :
    /\ tpc[p] = "finally"
    /\ engine[p] = "running"
    /\ effect = "Transcription is taking too long, try again"

\* C8: an activation of apply_device_change changes nothing at its two guards,
\* and returns from them when recording (line 438) or transcribing (line 443) is
\* set: no stream, health, heartbeat, polled-name or phase change, no refresh,
\* no notification.
C8_ChangeSuppressed ==
  [][\A c \in Callers :
       /\ (adc[c] \in {"a438", "a443"} /\ adc'[c] # adc[c]) =>
            /\ UNCHANGED <<stream, stream_healthy, hb_age, last_polled_device_name,
                           recording, transcribing, transcript>>
            /\ pasted' = <<>>
            /\ effect' = "none"
       /\ (adc[c] = "a438" /\ adc'[c] # adc[c] /\ recording) => adc'[c] = "none"
       /\ (adc[c] = "a443" /\ adc'[c] # adc[c] /\ transcribing) => adc'[c] = "none"]_vars

C8_Witness ==
  /\ adc["push"] = "a443"
  /\ Transcribing
  /\ stream # "none"

\* a step of the device-change handling: of an activation of apply_device_change,
\* or the watchdog's poll (lines 347-359)
DeviceHandlingStep ==
  \/ \E c \in Callers : adc'[c] # adc[c]
  \/ wd = "w349" /\ wd' # wd

\* C9: from the start of a recording until its transcription thread has ended,
\* no step of the device-change handling changes the bound stream or refreshes
\* the device cache.
C9_NoDeviceHandlingInSession ==
  [][((recording \/ Started # {}) /\ DeviceHandlingStep) =>
       (stream' = stream /\ effect' # "refresh_sounddevice")]_vars

\* C10: the watchdog invokes restart_audio_stream only if it did not before, or
\* more than audio_timeout has passed since the last attempt returned.
C10_OncePerStall ==
  [][(wd = "w323" /\ wd' = "r380") =>
       (since_restart = -1 \/ since_restart > AudioTimeoutTicks)]_vars

\* the statements of toggle_recording inside the try of lines 217-254
ToggleOpening == {"t222", "t229", "t237", "t243", "t250"}

\* C11: a toggle whose stream open fails (device resolution, construction, start
\* or the active check) returns without setting recording, leaves transcribing
\* as it was, sets stream_healthy to false and shows "Failed to start recording".
C11_OpenFailureStaysIdle ==
  [][(hk \in ToggleOpening /\ hk' = "idle") =>
       /\ ~recording /\ ~recording'
       /\ transcribing' = transcribing
       /\ ~stream_healthy'
       /\ effect' = "Failed to start recording"]_vars

C11_Witness ==
  /\ hk = "idle"
  /\ effect = "Failed to start recording"
  /\ ~stream_healthy
  /\ Idle
  /\ stream = "closed"

\* C12: when restart_audio_stream fails, it returns with the shared
\* stream_healthy false, recording false and "Failed to restart audio" shown.
C12_RestartFailureUnhealthy ==
  [][(wd = "r414" /\ wd' = "w344") =>
       /\ ~stream_healthy'
       /\ ~recording'
       /\ effect' = "Failed to restart audio"]_vars

\* transcription threads whose drained buffer is non-empty and below the
\* silence threshold
Quiet == {p \in Pipelines : audio_data[p] # <<>> /\ Silent(audio_data[p])}

\* C13: on a drained buffer whose peak is below the silence threshold the
\* pipeline does not start the engine, shows "Audio too quiet", delivers
\* nothing, and the phase is Idle when it ends.
C13_SilenceGate ==
  [][\A p \in Quiet :
       /\ (tpc[p] = "t630" /\ tpc'[p] # "t630") =>
            /\ tpc'[p] = "finally"
            /\ effect' = "Audio too quiet, try again"
            /\ engine'[p] = "none"
       /\ (tpc[p] = "finally" /\ tpc'[p] = "none") => Idle']_vars


\* C14: once the budget has run out while the engine was still running, the
\* pipeline leaves its wait only by the timeout branch ("taking too long") and
\* ends; that run neither pastes nor logs a transcript, and an engine thread
\* that outlives its pipeline changes neither.
C14_LateResultDiscarded ==
  [][/\ \A p \in Pipelines :
          overdue[p] =>
            /\ (tpc[p] = "t673" /\ tpc'[p] # "t673") =>
                 /\ tpc'[p] = "finally"
                 /\ effect' = "Transcription is taking too long, try again"
            /\ tpc'[p] # tpc[p] => (transcript' = transcript /\ pasted' = <<>>)
     /\ \A p \in Pipelines :
          (engine[p] = "running" /\ engine'[p] # "running" /\ tpc[p] # "t673") =>
            (transcript' = transcript /\ pasted' = <<>> /\ effect' = "none")]_vars

C16_DeliveryIffText ==
  [][\A p \in Pipelines :
       (/\ tpc[p] = "t688"
        /\ engine[p] = "success"
        /\ tpc'[p] = "finally"
        /\ effect' # "Transcription error") =>
         /\ (effect' = "send_text_to_active_app") <=> (cleanup_text(Strip(result[p])) # <<>>)
         /\ Strip(result[p]) = <<>> => pasted' = <<>>]_vars

\* C17: for the engine text "hello  world ." the text handed to
\* send_text_to_active_app is "hello world. ".
C17_HelloWorld ==
  [][\A p \in Pipelines :
       (/\ tpc[p] = "t688"
        /\ engine[p] = "success"
        /\ result[p] = Hello
        /\ effect' = "send_text_to_active_app") =>
         pasted' = <<"h", "e", "l", "l", "o", " ", "w", "o", "r", "l", "d", ".", " ">>]_vars

\* a step of repaste_last_transcription on the hotkey thread
RepasteStep ==
  \/ /\ hk = "idle"
     /\ \/ hk' = "f298"
        \/ effect' \in {"No previous transcription", "Failed to repaste"}
  \/ hk = "f298" /\ hk' = "idle"

\* C18: a repaste on a log that holds no transcript (or with no log file) hands
\* nothing to send_text_to_active_app, and unless reading the log raises it
\* shows 'No previous transcription'.
C18_NothingToRepaste ==
  [][(RepasteStep /\ transcript = <<>> /\ hk = "idle") =>
       /\ pasted' = <<>>
       /\ effect' # "send_text_to_active_app"
       /\ hk' = "idle"
       /\ effect' # "Failed to repaste" => effect' = "No previous transcription"]_vars

C18_Witness ==
  /\ transcript = <<>>
  /\ hk = "idle"
  /\ effect = "No previous transcription"

\* C19: whenever the hotkey thread is free a repaste can run, whatever the
\* flags are, and no step of it, pasting, finding nothing or failing, changes
\* recording, transcribing, the stream, the audio queue, stream_healthy or
\* the heartbeat.
C19_RepasteFrame ==
  /\ [](hk = "idle" => ENABLED (RepasteNothing \/ RepastePaste))
  /\ [][RepasteStep =>
          UNCHANGED <<recording, transcribing, stream, audio_queue, stream_healthy,
                      hb_age>>]_vars

C19_Witness ==
  /\ Transcribing
  /\ hk = "idle"
  /\ effect = "Repasted last transcription"

\* C20: while the phase is Transcribing the audio callback appends no chunk to
\* the audio queue.
C20_NoPutWhileTranscribing ==
  [][Transcribing => ~(ac = "put" /\ ac' = "idle")]_vars

\* the device resolution rule as stated: a numeric index within bounds; else the
\* first device whose name contains the argument, case-insensitively; with no
\* argument the default, or without a default the first device with an input
\* channel; failing otherwise
SameLetters(x, y) ==
  /\ Len(x) = Len(y)
  /\ \A i \in 1..Len(x) : LowerLetter(x[i]) = LowerLetter(y[i])
NameContains(name, arg) ==
  \E a \in 1..(Len(name) + 1) : \E b \in (a - 1)..Len(name) :
    SameLetters(SubSeq(name, a, b), arg)
NoArgRule(c) ==
  IF c.default # NoDefault THEN c.default
  ELSE IF \E i \in 1..Len(c.devices) : c.devices[i].max_input_channels >= 1
         THEN (CHOOSE i \in 1..Len(c.devices) :
                 /\ c.devices[i].max_input_channels >= 1
                 /\ \A j \in 1..(i - 1) : c.devices[j].max_input_channels < 1) - 1
         ELSE NoInputDevices
FirstNamed(c) ==
  (CHOOSE i \in 1..Len(c.devices) :
     /\ NameContains(c.devices[i].name, c.device_arg)
     /\ \A j \in 1..(i - 1) : ~NameContains(c.devices[j].name, c.device_arg)) - 1
IndexWithinBounds(c) ==
  /\ c.device_arg \in {<<"0">>, <<"1">>, <<"2">>}
  /\ IntOf(c.device_arg) \in 0..(Len(c.devices) - 1)
resolveDevice(c) ==
  IF c.device_arg = NoArg THEN NoArgRule(c)
  ELSE IF IndexWithinBounds(c) THEN IntOf(c.device_arg)
  ELSE IF \E i \in 1..Len(c.devices) : NameContains(c.devices[i].name, c.device_arg)
         THEN FirstNamed(c)
         ELSE NoInputDevices
\* the same rule with an argument that selects nothing treated as no argument
resolveDeviceOrDefault(c) ==
  IF c.device_arg = NoArg THEN NoArgRule(c)
  ELSE IF IndexWithinBounds(c) THEN IntOf(c.device_arg)
  ELSE IF \E i \in 1..Len(c.devices) : NameContains(c.devices[i].name, c.device_arg)
         THEN FirstNamed(c)
         ELSE NoArgRule(c)

\* C21: the result of select_input_device equals the stated rule for every
\* argument and every device list.
C21_ResolveDevice ==
  select.index # Pending => select.index = resolveDevice(select)

\* C21 with the default (or the first input device) also used when an argument
\* is given that is neither an index within bounds nor part of a device name.
C21_ResolveDeviceOrDefault ==
  select.index # Pending => select.index = resolveDeviceOrDefault(select)

C21_Witness ==
  /\ select.index # Pending
  /\ select.device_arg = <<"x">>
  /\ Len(select.devices) = 2
  /\ select.default = 1
  /\ select.index = 1
  /\ effect = "Specified device not found. Using default."

\* C22: the watchdog loop keeps ticking: whatever fault a tick ran into (stall
\* restart, idle probe, device polling, apply_device_change, or one that
\* reaches the except clause of line 364), the thread gets back to the top of
\* its loop.
C22_WatchdogKeepsTicking == []<>(wd = "w322")

C22_Witness ==
  /\ wd = "w365"
  /\ effect = "Watchdog error"

\* C23: every step of restart_audio_stream that closes, replaces or starts the
\* stream is taken while the phase is Recording.
C23_RestartWhileRecording ==
  [][(wd \in {"r380", "r388", "r398"} /\ wd' # wd /\ stream' # stream) =>
       Recording]_vars

\* C24: a failing apply_device_change sets stream_healthy to false with its
\* error notice, and, provided polling cycles keep coming while the phase is
\* Idle, one of them calls apply_device_change again.
\* line 349-350 succeeded in a polling cycle (line 345: the phase was Idle)
Polled == effect = "refresh_sounddevice" /\ wd \in {"w322", "apply"}

C24_FailureRetried ==
  /\ [][effect' = "Failed to switch audio device" => stream_healthy' = FALSE]_vars
  /\ []<>Polled =>
       ((effect = "Failed to switch audio device") ~> (adc["poll"] = "a438"))

\* C25: when apply_device_change fails, the stream it found bound is still
\* bound: it was not closed and the global was not set to None.
C25_FailureKeepsStream ==
  [][\A c \in Callers :
       (/\ adc[c] \in {"a460", "a468"}
        /\ adc'[c] = "none"
        /\ effect' = "Failed to switch audio device") =>
         bound_before[c] # "bound"]_vars

\* C26: the polling fallback calls apply_device_change only while the phase is
\* Idle and only after the system default input device changed; the default is
\* "mic_a" at startup, and where it never changes polling never calls
\* apply_device_change, whatever --device was given.
C26_PollOnlyOnChange ==
  [][(adc["poll"] = "none" /\ adc'["poll"] = "a438") =>
       (Idle /\ sys_default # "mic_a")]_vars

\* C27: a toggle that leaves Idle for Recording records from the device
\* select_input_device(args.device) resolves to at the time of that toggle: when
\* the toggle decides to record from the stream already bound (lines 203-208),
\* that stream is open on the device the selection resolves to.
C27_RecordsFromSelected ==
  [][(hk = "t203" /\ hk' = "t264") => stream_device = Selected]_vars

\* C29: after an idle health probe, stream_healthy equals the outcome of the
\* capability check: true when it passed, false when it failed.
C29_ProbeOutcome ==
  [][(wd = "w322" /\ wd' = "w344"
        /\ effect' \in {"Microphone access test passed.", "Microphone access test failed"}) =>
       (stream_healthy' <=> effect' = "Microphone access test passed.")]_vars

\* C30: a repaste delivers exactly the text the most recent successful run
\* delivered: the step of lines 695-707 that pastes a text leaves that same
\* string as the transcript repaste_last_transcription finds in the log, and
\* the step of lines 292-297 pastes the transcript it found.
C30_RepasteSameText ==
  [][/\ \A p \in Pipelines :
          (/\ tpc[p] = "t688"
           /\ tpc'[p] = "finally"
           /\ effect' = "send_text_to_active_app") => transcript' = pasted'
     /\ (hk = "idle" /\ hk' = "f298") => pasted' = transcript]_vars

\* C28: a failure to find or open an input device during the startup
\* pre-initialisation is not fatal: the main thread never ends in the except
\* clause of lines 854-858.
C28_StartupNotFatal == main # "crashed"

\* C33: at every step that sets recording (line 264) the audio queue is empty,
\* so no chunk of an earlier recording is transcribed with a later one.
C33_QueueEmptyAtStart ==
  [][(hk = "t264" /\ hk' = "t267") => audio_queue = <<>>]_vars

\* C34: at most one opened, not yet closed input stream exists: whenever
\* toggle_recording (line 237), restart_audio_stream (line 392) or
\* apply_device_change (line 472) binds a new stream, the stream bound until
\* then is absent or closed.
C34_OneOpenStream ==
  [][(\/ hk = "t237" /\ hk' = "t243"
      \/ wd = "r388" /\ wd' = "r398"
      \/ \E c \in Callers : adc[c] = "a468" /\ effect' = "Switched to") =>
       stream \in {"none", "closed"}]_vars

C37_SelectedHasInput ==
  (/\ select.index \notin {Pending, NoInputDevices}
   /\ select.default # NoDefault =>
        select.devices[select.default + 1].max_input_channels > 0) =>
    select.devices[select.index + 1].max_input_channels > 0

\* instances past setup_lock_file that have not removed the lock file on their
\* way out (lines 769-776)
Continuing == {i \in Instances : instance[i] \in {"m756", "m781", "h769"}}

C32_CallbackOnChange ==
  [][monitor'.callback # monitor.callback =>
       LET old == monitor'.callback[1]
           new == monitor'.callback[2]
       IN /\ new # NoId
          /\ new # monitor.last_device_id
          /\ old = monitor.last_device_id
          /\ monitor'.last_device_id = new
          /\ monitor.callback # NoCallback =>
               (new # monitor.callback[2] /\ old = monitor.callback[2])]_vars

C32_Witness ==
  /\ monitor.callback = <<2, 1>>
  /\ monitor.last_device_id = 1
  /\ monitor.default_id = 1

\* C36: after stop() has returned the property listener is not registered.
C36_StoppedUnregistered ==
  monitor.stop = "returned" => ~monitor.registered

====
